---- MODULE Spec2Model ----
(***************************************************************************)
(* Model of the symlink reconciler of dotfiles-tool:                       *)
(*   src/src/symlink/mod.rs     SymlinkStatus, SymlinkReport,              *)
(*                              detect_conflicts, validate_symlinks        *)
(*   src/src/symlink/manual.rs  ManualSymlinker (create_symlink,           *)
(*                              remove_symlink, symlink, remove)           *)
(* The state is a small file system: the source path and its direct        *)
(* children, the target directory and its entries, one path that exists    *)
(* elsewhere and one path that does not exist.  Every operation is one     *)
(* atomic action that runs the whole pass over the source directory in a   *)
(* directory-iteration order chosen by the file system.                    *)
(*                                                                         *)
(* Scope of the file system: every std::fs call succeeds exactly when its  *)
(* POSIX precondition holds in this name space (no permission errors, no   *)
(* device errors); symbolic links never form a cycle.                      *)
(***************************************************************************)
EXTENDS Integers, Sequences, FiniteSets, TLC

VARIABLES fs, last, prev, scandir, envfile, sec, clock, trees, bak, mig

vars == <<fs, last, prev, scandir, envfile, sec, clock, trees, bak, mig>>

----------------------------------------------------------------------------
(* Paths (std::path::PathBuf): sequences of components.                    *)

\* The names a child of the source directory may carry.
ChildNames == {"c1", "c2"}

Source == <<"dotfiles">>

Target == <<"home">>

\* A path outside source and target that holds a regular file.
Other == <<"elsewhere">>

\* A path at which nothing exists.
Gone == <<"gone">>

\* PathBuf::new()
EmptyPath == <<>>

\* Path::join
Join(dir, name) == Append(dir, name)

\* Path::file_name
FileName(p) == p[Len(p)]

\* Path::parent
Parent(p) == SubSeq(p, 1, Len(p) - 1)

\* Names an entry of the target directory may carry: those of the source's
\* children and, for a source that is a single file, the source's own name.
EntryNames == ChildNames \cup {FileName(Source)}

SourceChildren == {Join(Source, n) : n \in ChildNames}

TargetEntries == {Join(Target, n) : n \in EntryNames}

Paths == {Source, Target, Other, Gone} \cup SourceChildren \cup TargetEntries

----------------------------------------------------------------------------
(* File-system nodes and the std::fs / std::path primitives the code uses. *)

Absent == [kind |-> "absent", dest |-> EmptyPath]

File == [kind |-> "file", dest |-> EmptyPath]

Dir == [kind |-> "dir", dest |-> EmptyPath]

Link(d) == [kind |-> "link", dest |-> d]

\* stat(2): the kind of the node a path resolves to, following symbolic
\* links; "absent" when the path or the end of its link chain is missing.
RECURSIVE Metadata(_, _)
Metadata(f, p) ==
    IF p \notin DOMAIN f THEN "absent"
    ELSE IF f[p].kind = "link" THEN Metadata(f, f[p].dest)
    ELSE f[p].kind

\* Path::exists: fs::metadata(path).is_ok(), which traverses symbolic links
\* and is false for a broken link.
Exists(f, p) == Metadata(f, p) # "absent"

\* Path::is_symlink: fs::symlink_metadata, which does not follow links.
IsSymlink(f, p) == p \in DOMAIN f /\ f[p].kind = "link"

\* Path::is_dir: follows links.
IsDir(f, p) == Metadata(f, p) = "dir"

\* lstat(2): something occupies the path itself.
Occupied(f, p) == p \in DOMAIN f /\ f[p].kind # "absent"

\* std::fs::read_link: Ok(stored destination) for a symbolic link.
ReadLink(f, p) ==
    IF IsSymlink(f, p) THEN [ok |-> TRUE, path |-> f[p].dest]
    ELSE [ok |-> FALSE, path |-> EmptyPath]

\* std::fs::remove_file: unlink(2); removes a file or the link itself.
RemoveFile(f, p) ==
    IF p \in DOMAIN f /\ f[p].kind \in {"file", "link"}
    THEN [ok |-> TRUE, fs |-> [f EXCEPT ![p] = Absent]]
    ELSE [ok |-> FALSE, fs |-> f]

\* std::fs::create_dir_all on the target directory (its own parent exists).
CreateDirAll(f, p) ==
    IF IsDir(f, p) THEN [ok |-> TRUE, fs |-> f]
    ELSE IF p \in DOMAIN f /\ f[p].kind = "absent"
    THEN [ok |-> TRUE, fs |-> [f EXCEPT ![p] = Dir]]
    ELSE [ok |-> FALSE, fs |-> f]

\* std::os::unix::fs::symlink(original, link): symlink(2); fails with EEXIST
\* when anything, a broken link included, occupies `link`, and with ENOENT
\* when the parent directory is missing.
SymlinkAt(f, original, link) ==
    IF link \in DOMAIN f /\ f[link].kind = "absent" /\ IsDir(f, Parent(link))
    THEN [ok |-> TRUE, fs |-> [f EXCEPT ![link] = Link(original)]]
    ELSE [ok |-> FALSE, fs |-> f]

\* The names std::fs::read_dir yields for a directory.
DirEntries(f, dir) ==
    {n \in EntryNames : Join(dir, n) \in DOMAIN f /\ Occupied(f, Join(dir, n))}

\* std::fs::read_dir(dir) returns Ok: dir resolves to a directory (ENOENT
\* and ENOTDIR otherwise).
ReadDirOk(f, dir) == IsDir(f, dir)

\* Every order in which read_dir may yield a set of names.
Orders(S) ==
    {o \in [1..Cardinality(S) -> S] : \A i, j \in 1..Cardinality(S) : o[i] = o[j] => i = j}

----------------------------------------------------------------------------
(* SymlinkStatus and SymlinkReport (symlink/mod.rs).                       *)

Created(source, target) ==
    [tag |-> "Created", source |-> source, target |-> target, reason |-> ""]

AlreadyExists(target) ==
    [tag |-> "AlreadyExists", source |-> EmptyPath, target |-> target, reason |-> ""]

Conflict(target, reason) ==
    [tag |-> "Conflict", source |-> EmptyPath, target |-> target, reason |-> reason]

Skipped(target, reason) ==
    [tag |-> "Skipped", source |-> EmptyPath, target |-> target, reason |-> reason]

\* SymlinkReport::new
NewReport == [created |-> <<>>, already_exists |-> <<>>, conflicts |-> <<>>, skipped |-> <<>>]

\* Faulty variant of ReportAdd: a Skipped status is not recorded.
ReportAdd_DropsSkipped(report, status) ==
    CASE status.tag = "Created" ->
           [report EXCEPT !.created = Append(@, status.target)]
      [] status.tag = "AlreadyExists" ->
           [report EXCEPT !.already_exists = Append(@, status.target)]
      [] status.tag = "Conflict" ->
           [report EXCEPT !.conflicts = Append(@, <<status.target, status.reason>>)]
      [] status.tag = "Skipped" -> report

\* SymlinkReport::add
ReportAdd(report, status) ==
    CASE status.tag = "Created" ->
           [report EXCEPT !.created = Append(@, status.target)]
      [] status.tag = "AlreadyExists" ->
           [report EXCEPT !.already_exists = Append(@, status.target)]
      [] status.tag = "Conflict" ->
           [report EXCEPT !.conflicts = Append(@, <<status.target, status.reason>>)]
      [] status.tag = "Skipped" ->
           [report EXCEPT !.skipped = Append(@, <<status.target, status.reason>>)]

\* SymlinkReport::total
Total(report) ==
    Len(report.created) + Len(report.already_exists)
        + Len(report.conflicts) + Len(report.skipped)

----------------------------------------------------------------------------
(* ManualSymlinker (symlink/manual.rs).  A Result is modelled by the       *)
(* fields ok / err; every function also returns the file system it leaves. *)

OkStatus(status, f) == [ok |-> TRUE, err |-> "", status |-> status, fs |-> f]

ErrStatus(err, f) == [ok |-> FALSE, err |-> err, status |-> Skipped(EmptyPath, ""), fs |-> f]

\* Faulty variant of CreateLink: the link is made in a dry run too.
CreateLink_IgnoresDryRun(f, dry_run, source, target) ==
    LET mk == IF ~Exists(f, Parent(target))
              THEN CreateDirAll(f, Parent(target))
              ELSE [ok |-> TRUE, fs |-> f]
    IN  IF ~mk.ok THEN ErrStatus("Io", mk.fs)
        ELSE LET ln == SymlinkAt(mk.fs, source, target)
             IN  IF ln.ok THEN OkStatus(Created(source, target), ln.fs)
                 ELSE ErrStatus("Io", ln.fs)

\* Faulty variant of CreateLink: the parent directory is never created.
CreateLink_NoParentDir(f, dry_run, source, target) ==
    IF dry_run THEN OkStatus(Created(source, target), f)
    ELSE LET ln == SymlinkAt(f, source, target)
         IN  IF ln.ok THEN OkStatus(Created(source, target), ln.fs)
             ELSE ErrStatus("Io", ln.fs)

\* create_symlink, lines 71-93: create the parent directory and the link.
CreateLink(f, dry_run, source, target) ==
    LET mk == IF ~Exists(f, Parent(target)) /\ ~dry_run
              THEN CreateDirAll(f, Parent(target))
              ELSE [ok |-> TRUE, fs |-> f]
    IN  IF ~mk.ok THEN ErrStatus("Io", mk.fs)
        ELSE IF dry_run THEN OkStatus(Created(source, target), mk.fs)
        ELSE LET ln == SymlinkAt(mk.fs, source, target)
             IN  IF ln.ok THEN OkStatus(Created(source, target), ln.fs)
                 ELSE ErrStatus("Io", ln.fs)

\* Faulty variant of CreateSymlink: an existing link is never compared with
\* the source, so a correct link is handled like a wrong one.
CreateSymlink_NoLinkCheck(f, dry_run, force, source, target) ==
    IF Exists(f, target)
    THEN IF IsSymlink(f, target)
         THEN IF force
              THEN IF ~dry_run
                   THEN LET rm == RemoveFile(f, target)
                        IN  IF rm.ok THEN CreateLink(rm.fs, dry_run, source, target)
                            ELSE ErrStatus("Io", rm.fs)
                   ELSE CreateLink(f, dry_run, source, target)
              ELSE OkStatus(Conflict(target, "Symlink exists and points to"), f)
         ELSE OkStatus(Conflict(target, IF IsDir(f, target) THEN "Directory exists"
                                                              ELSE "File exists"), f)
    ELSE CreateLink(f, dry_run, source, target)

\* Faulty variant of CreateSymlink: force also replaces a plain file.
CreateSymlink_ForceReplacesFiles(f, dry_run, force, source, target) ==
    IF Exists(f, target)
    THEN IF IsSymlink(f, target) /\ ReadLink(f, target).path = source
         THEN OkStatus(AlreadyExists(target), f)
         ELSE IF force /\ ~IsDir(f, target)
         THEN IF ~dry_run
              THEN LET rm == RemoveFile(f, target)
                   IN  IF rm.ok THEN CreateLink(rm.fs, dry_run, source, target)
                       ELSE ErrStatus("Io", rm.fs)
              ELSE CreateLink(f, dry_run, source, target)
         ELSE IF IsSymlink(f, target)
         THEN OkStatus(Conflict(target, "Symlink exists and points to"), f)
         ELSE OkStatus(Conflict(target, IF IsDir(f, target) THEN "Directory exists"
                                                              ELSE "File exists"), f)
    ELSE CreateLink(f, dry_run, source, target)

\* ManualSymlinker::create_symlink
CreateSymlink(f, dry_run, force, source, target) ==
    IF Exists(f, target)
    THEN IF IsSymlink(f, target)
         THEN IF ReadLink(f, target).ok /\ ReadLink(f, target).path = source
              THEN OkStatus(AlreadyExists(target), f)
              ELSE IF force
              THEN IF ~dry_run
                   THEN LET rm == RemoveFile(f, target)
                        IN  IF rm.ok THEN CreateLink(rm.fs, dry_run, source, target)
                            ELSE ErrStatus("Io", rm.fs)
                   ELSE CreateLink(f, dry_run, source, target)
              ELSE OkStatus(Conflict(target, "Symlink exists and points to"), f)
         ELSE OkStatus(Conflict(target, IF IsDir(f, target) THEN "Directory exists"
                                                              ELSE "File exists"), f)
    ELSE CreateLink(f, dry_run, source, target)

\* ManualSymlinker::remove_symlink, sparing every link whose stored
\* destination is not the source entry of the same name (faulty variant).
RemoveSymlink_KeepsForeign(f, dry_run, target) ==
    IF ~Exists(f, target)
    THEN OkStatus(Skipped(target, "Symlink does not exist"), f)
    ELSE IF ~IsSymlink(f, target)
    THEN OkStatus(Conflict(target, "Not a symlink, will not remove"), f)
    ELSE IF ReadLink(f, target).path # Join(Source, FileName(target))
    THEN OkStatus(Conflict(target, "Symlink points elsewhere"), f)
    ELSE IF ~dry_run
    THEN LET rm == RemoveFile(f, target)
         IN  IF rm.ok THEN OkStatus(Created(EmptyPath, target), rm.fs)
             ELSE ErrStatus("Io", rm.fs)
    ELSE OkStatus(Created(EmptyPath, target), f)

\* ManualSymlinker::remove_symlink
RemoveSymlink(f, dry_run, target) ==
    IF ~Exists(f, target)
    THEN OkStatus(Skipped(target, "Symlink does not exist"), f)
    ELSE IF ~IsSymlink(f, target)
    THEN OkStatus(Conflict(target, "Not a symlink, will not remove"), f)
    ELSE IF ~dry_run
    THEN LET rm == RemoveFile(f, target)
         IN  IF rm.ok THEN OkStatus(Created(EmptyPath, target), rm.fs)
             ELSE ErrStatus("Io", rm.fs)
    ELSE OkStatus(Created(EmptyPath, target), f)

----------------------------------------------------------------------------
(* The passes over the source directory.  `order` is the sequence of names *)
(* read_dir yields; `trace` records what the per-entry function returned   *)
(* for each name ("NotReached" for an entry the pass never got to).        *)

NoTrace == [n \in EntryNames |-> "NotReached"]

PassOk(report, trace, f) ==
    [ok |-> TRUE, err |-> "", report |-> report, trace |-> trace, fs |-> f]

PassErr(err, trace, f) ==
    [ok |-> FALSE, err |-> err, report |-> NewReport, trace |-> trace, fs |-> f]

\* ManualSymlinker::symlink, lines 143-153: the loop over the entries.
RECURSIVE SymlinkEntries(_, _, _, _, _, _, _, _, _)
SymlinkEntries(f, dry_run, force, source, target, order, i, report, trace) ==
    IF i > Len(order) THEN PassOk(report, trace, f)
    ELSE LET source_path == Join(source, order[i])
             target_path == Join(target, FileName(source_path))
             r == CreateSymlink(f, dry_run, force, source_path, target_path)
         IN  IF ~r.ok
             THEN PassErr(r.err, [trace EXCEPT ![order[i]] = "Err"], r.fs)
             ELSE SymlinkEntries(r.fs, dry_run, force, source, target, order, i + 1,
                                 ReportAdd(report, r.status),
                                 [trace EXCEPT ![order[i]] = r.status.tag])

\* Faulty variant of SymlinkPass: the source is not checked for existence.
SymlinkPass_NoSourceCheck(f, dry_run, force, source, target, order) ==
    IF IsDir(f, source)
    THEN SymlinkEntries(f, dry_run, force, source, target, order, 1, NewReport, NoTrace)
    ELSE LET target_path == Join(target, FileName(source))
             r == CreateSymlink(f, dry_run, force, source, target_path)
         IN  IF ~r.ok
             THEN PassErr(r.err, [NoTrace EXCEPT ![FileName(source)] = "Err"], r.fs)
             ELSE PassOk(ReportAdd(NewReport, r.status),
                         [NoTrace EXCEPT ![FileName(source)] = r.status.tag], r.fs)

\* ManualSymlinker::symlink
SymlinkPass(f, dry_run, force, source, target, order) ==
    IF ~Exists(f, source)
    THEN PassErr("SymlinkFailed", NoTrace, f)
    ELSE IF IsDir(f, source)
    THEN SymlinkEntries(f, dry_run, force, source, target, order, 1, NewReport, NoTrace)
    ELSE LET target_path == Join(target, FileName(source))
             r == CreateSymlink(f, dry_run, force, source, target_path)
         IN  IF ~r.ok
             THEN PassErr(r.err, [NoTrace EXCEPT ![FileName(source)] = "Err"], r.fs)
             ELSE PassOk(ReportAdd(NewReport, r.status),
                         [NoTrace EXCEPT ![FileName(source)] = r.status.tag], r.fs)

\* ManualSymlinker::remove, lines 191-201: the loop over the entries.
RECURSIVE RemoveEntries(_, _, _, _, _, _, _, _)
RemoveEntries(f, dry_run, source, target, order, i, report, trace) ==
    IF i > Len(order) THEN PassOk(report, trace, f)
    ELSE LET source_path == Join(source, order[i])
             target_path == Join(target, FileName(source_path))
             r == RemoveSymlink(f, dry_run, target_path)
         IN  IF ~r.ok
             THEN PassErr(r.err, [trace EXCEPT ![order[i]] = "Err"], r.fs)
             ELSE RemoveEntries(r.fs, dry_run, source, target, order, i + 1,
                                ReportAdd(report, r.status),
                                [trace EXCEPT ![order[i]] = r.status.tag])

\* ManualSymlinker::remove
RemovePass(f, dry_run, source, target, order) ==
    IF ~Exists(f, source)
    THEN PassErr("SymlinkFailed", NoTrace, f)
    ELSE IF IsDir(f, source)
    THEN RemoveEntries(f, dry_run, source, target, order, 1, NewReport, NoTrace)
    ELSE LET target_path == Join(target, FileName(source))
             r == RemoveSymlink(f, dry_run, target_path)
         IN  IF ~r.ok
             THEN PassErr(r.err, [NoTrace EXCEPT ![FileName(source)] = "Err"], r.fs)
             ELSE PassOk(ReportAdd(NewReport, r.status),
                         [NoTrace EXCEPT ![FileName(source)] = r.status.tag], r.fs)

\* detect_conflicts, lines 147-169: what one entry adds to the conflicts.
ConflictOf(f, source_path, target_path) ==
    IF Exists(f, target_path)
    THEN IF IsSymlink(f, target_path)
         THEN IF ReadLink(f, target_path).ok /\ ReadLink(f, target_path).path = source_path
              THEN <<>>
              ELSE << <<target_path, "Symlink exists but points to wrong location">> >>
         ELSE IF IsDir(f, target_path)
         THEN << <<target_path, "Directory already exists">> >>
         ELSE << <<target_path, "File already exists">> >>
    ELSE <<>>

RECURSIVE ConflictsOf(_, _, _, _, _)
ConflictsOf(f, source, target, order, i) ==
    IF i > Len(order) THEN <<>>
    ELSE LET source_path == Join(source, order[i])
             target_path == Join(target, FileName(source_path))
         IN  ConflictOf(f, source_path, target_path)
                 \o ConflictsOf(f, source, target, order, i + 1)

\* detect_conflicts without the check of lines 137-142 (faulty variant).
DetectConflicts_NoSourceCheck(f, source, target, order) ==
    IF IsDir(f, source)
    THEN ConflictsOf(f, source, target, order, 1)
    ELSE <<>>

\* detect_conflicts; `if let Ok(entries) = read_dir(source)` (line 145) has
\* no else branch, so a failed read_dir yields the empty list.
DetectConflicts(f, source, target, order) ==
    IF ~Exists(f, source)
    THEN << <<source, "Source directory does not exist">> >>
    ELSE IF ReadDirOk(f, source)
    THEN ConflictsOf(f, source, target, order, 1)
    ELSE <<>>

\* validate_symlinks, lines 188-207: what one entry adds to the issues.
IssueOf(f, source_path, target_path) ==
    IF ~Exists(f, target_path)
    THEN << <<target_path, "Symlink does not exist">> >>
    ELSE IF ~IsSymlink(f, target_path)
    THEN << <<target_path, "Not a symlink">> >>
    ELSE IF ReadLink(f, target_path).ok
    THEN IF ReadLink(f, target_path).path # source_path
         THEN << <<target_path, "Points to the wrong path">> >>
         ELSE <<>>
    ELSE << <<target_path, "Failed to read symlink">> >>

RECURSIVE IssuesOf(_, _, _, _, _)
IssuesOf(f, source, target, order, i) ==
    IF i > Len(order) THEN <<>>
    ELSE LET source_path == Join(source, order[i])
             target_path == Join(target, FileName(source_path))
         IN  IssueOf(f, source_path, target_path)
                 \o IssuesOf(f, source, target, order, i + 1)

\* validate_symlinks; a failed read_dir (line 187) yields Ok(no issues).
ValidateSymlinks(f, source, target, order) ==
    IF ~Exists(f, source)
    THEN << <<source, "Source directory does not exist">> >>
    ELSE IF ReadDirOk(f, source)
    THEN IssuesOf(f, source, target, order, 1)
    ELSE <<>>

----------------------------------------------------------------------------
(* Initial file systems.                                                   *)

\* What a child of the source directory may be: nothing, a regular file, or
\* a symbolic link whose destination is missing.
SourceChildNodes == {Absent, File, Link(Gone)}

\* What may occupy target/name before a call: nothing, a plain file, a
\* directory, a link to `correct`, a link to an existing path elsewhere, or a
\* link to a missing path.
TargetEntryNodes(correct) == {Absent, File, Dir, Link(correct), Link(Other), Link(Gone)}

AllTargetNodes == UNION {TargetEntryNodes(s) : s \in SourceChildren \cup {Source}}

MkFs(source, target, children, entries) ==
    [p \in Paths |->
        IF p = Source THEN source
        ELSE IF p = Target THEN target
        ELSE IF p = Other THEN File
        ELSE IF p = Gone THEN Absent
        ELSE IF p \in SourceChildren THEN children[FileName(p)]
        ELSE entries[FileName(p)]]

NoChildren == [n \in ChildNames |-> Absent]

NoEntries == [n \in EntryNames |-> Absent]

\* Entries of an existing target directory when the source is a directory or
\* is missing: one per child name.
ChildEntries ==
    {e \in [EntryNames -> AllTargetNodes] :
        /\ e[FileName(Source)] = Absent
        /\ \A n \in ChildNames : e[n] \in TargetEntryNodes(Join(Source, n))}

\* Entries of an existing target directory when the source is a single file.
FileEntries ==
    {e \in [EntryNames -> AllTargetNodes] :
        /\ e[FileName(Source)] \in TargetEntryNodes(Source)
        /\ \A n \in ChildNames : e[n] = Absent}

InitialFs ==
    {MkFs(Dir, Dir, c, e) : c \in [ChildNames -> SourceChildNodes], e \in ChildEntries}
    \cup {MkFs(Dir, Absent, c, NoEntries) : c \in [ChildNames -> SourceChildNodes]}
    \cup {MkFs(Absent, Dir, NoChildren, e) : e \in ChildEntries}
    \cup {MkFs(File, Dir, NoChildren, e) : e \in FileEntries}
    \cup {MkFs(s, Absent, NoChildren, NoEntries) : s \in {Absent, File}}

----------------------------------------------------------------------------
(* Secret scanner, src/src/backup/secrets.rs.  Text is a sequence of       *)
(* one-character strings, so that trimming, prefix and substring tests,    *)
(* upper-casing and the regular expression work on the characters.         *)

UpperLetters ==
    <<"A", "B", "C", "D", "E", "F", "G", "H", "I", "J", "K", "L", "M",
      "N", "O", "P", "Q", "R", "S", "T", "U", "V", "W", "X", "Y", "Z">>

LowerLetters ==
    <<"a", "b", "c", "d", "e", "f", "g", "h", "i", "j", "k", "l", "m",
      "n", "o", "p", "q", "r", "s", "t", "u", "v", "w", "x", "y", "z">>

Range(s) == {s[i] : i \in 1..Len(s)}

\* char::is_whitespace and the class \s, over the characters of the model
Whitespace == {" ", "\t"}

\* the class ['"] of the pattern
Quotes == {"'", "\""}

\* the class [A-Z_] of the pattern
KeyChars == Range(UpperLetters) \cup {"_"}

\* str::to_uppercase
ToUppercase(s) ==
    [i \in 1..Len(s) |->
        IF s[i] \in Range(LowerLetters)
        THEN UpperLetters[CHOOSE k \in 1..Len(LowerLetters) : LowerLetters[k] = s[i]]
        ELSE s[i]]

\* str::starts_with
StartsWith(s, p) == Len(p) <= Len(s) /\ SubSeq(s, 1, Len(p)) = p

\* str::contains
Contains(s, sub) ==
    \E i \in 0..(Len(s) - Len(sub)) : SubSeq(s, i + 1, i + Len(sub)) = sub

\* The first index from i on whose character is not of the class (inside)
\* or is of the class (~inside); Len(s) + 1 when there is none.
RECURSIVE RunEnd(_, _, _, _)
RunEnd(s, i, class, inside) ==
    IF i <= Len(s) /\ ((s[i] \in class) = inside)
    THEN RunEnd(s, i + 1, class, inside)
    ELSE i

\* str::trim_start
TrimStart(s) == SubSeq(s, RunEnd(s, 1, Whitespace, TRUE), Len(s))

\* str::lines: the text between line feeds; a final line feed ends the last
\* line and starts no further one.
RECURSIVE Lines(_)
Lines(content) ==
    IF content = <<>> THEN <<>>
    ELSE LET e == RunEnd(content, 1, {"\n"}, FALSE)
         IN  <<SubSeq(content, 1, e - 1)>> \o Lines(SubSeq(content, e + 1, Len(content)))

TOKEN == <<"T", "O", "K", "E", "N">>
KEY == <<"K", "E", "Y">>
SECRET == <<"S", "E", "C", "R", "E", "T">>
PASSWORD == <<"P", "A", "S", "S", "W", "O", "R", "D">>
PASS == <<"P", "A", "S", "S">>
AUTH == <<"A", "U", "T", "H">>
PUBLIC_KEY == <<"P", "U", "B", "L", "I", "C", "_">> \o KEY
SSH_KEY_PATH == <<"S", "S", "H", "_">> \o KEY \o <<"_", "P", "A", "T", "H">>
KEY_FILE == KEY \o <<"_", "F", "I", "L", "E">>
KEYMAP == KEY \o <<"M", "A", "P">>

\* is_likely_secret, line 96
secret_keywords == {TOKEN, KEY, SECRET, PASSWORD, PASS, AUTH}

\* is_likely_secret, line 106
non_secrets == {PUBLIC_KEY, SSH_KEY_PATH, KEY_FILE, KEYMAP}

\* is_likely_secret without the exclusions of lines 105-109 (faulty variant).
IsLikelySecret_NoDenyList(key) ==
    \E kw \in secret_keywords : Contains(ToUppercase(key), kw)

\* is_likely_secret
IsLikelySecret(key) ==
    LET key_upper == ToUppercase(key)
        has_secret_keyword == \E kw \in secret_keywords : Contains(key_upper, kw)
        is_non_secret == \E ns \in non_secrets : Contains(key_upper, ns)
    IN  IF ~has_secret_keyword THEN FALSE
        ELSE has_secret_keyword /\ ~is_non_secret

export == <<"e", "x", "p", "o", "r", "t">>

NoCaptures == [matched |-> FALSE, key |-> <<>>, value |-> <<>>]

\* SecretPatterns.env_var anchored at j, after the optional export prefix:
\*   ([A-Z_]*(?:TOKEN|KEY|SECRET|PASSWORD|PASS|AUTH)[A-Z_]*)=['"]?([^'"\s]+)['"]?
\* The first group must run up to the "=", so it is the whole run of [A-Z_]
\* from j; the second group is greedy and nothing after it can fail.
AssignmentAt(line, j) ==
    LET e == RunEnd(line, j, KeyChars, TRUE)
        key == SubSeq(line, j, e - 1)
        v == IF e + 1 <= Len(line) /\ line[e + 1] \in Quotes THEN e + 2 ELSE e + 1
        ve == RunEnd(line, v, Quotes \cup Whitespace, FALSE)
    IN  IF /\ e <= Len(line)
           /\ line[e] = "="
           /\ \E kw \in {TOKEN, KEY, SECRET, PASSWORD, PASS, AUTH} : Contains(key, kw)
           /\ ve > v
        THEN [matched |-> TRUE, key |-> key, value |-> SubSeq(line, v, ve - 1)]
        ELSE NoCaptures

\* SecretPatterns.env_var anchored at i: (?:export\s+)? and then the rest.
EnvVarAt(line, i) ==
    LET j == RunEnd(line, i + Len(export), Whitespace, TRUE)
    IN  IF /\ i + Len(export) - 1 <= Len(line)
           /\ SubSeq(line, i, i + Len(export) - 1) = export
           /\ j > i + Len(export)
        THEN AssignmentAt(line, j)
        ELSE AssignmentAt(line, i)

\* patterns.env_var.captures(line): the leftmost match.
EnvVarCaptures(line) ==
    LET starts == {i \in 1..Len(line) : EnvVarAt(line, i).matched}
    IN  IF starts = {} THEN NoCaptures
        ELSE EnvVarAt(line, CHOOSE i \in starts : \A k \in starts : i <= k)

Secret(key, value, file, line_number) ==
    [key |-> key, value |-> value, file |-> file, line_number |-> line_number]

\* The comment test of scan_file, lines 64-67.
IsComment(line) ==
    StartsWith(TrimStart(line), <<"#">>) \/ StartsWith(TrimStart(line), <<"/", "/">>)

\* scan_file without the comment test (faulty variant).
ScanLine_NoCommentSkip(line, file_name, line_num) ==
    LET captures == EnvVarCaptures(line)
    IN  IF captures.matched /\ IsLikelySecret(captures.key)
        THEN <<Secret(captures.key, captures.value, file_name, line_num + 1)>>
        ELSE <<>>

\* scan_file, lines 62-86: what the line at index line_num (from 0) adds.
ScanLine(line, file_name, line_num) ==
    IF IsComment(line) THEN <<>>
    ELSE LET captures == EnvVarCaptures(line)
         IN  IF ~captures.matched THEN <<>>
             ELSE IF ~IsLikelySecret(captures.key) THEN <<>>
             ELSE <<Secret(captures.key, captures.value, file_name, line_num + 1)>>

RECURSIVE ScanLines(_, _, _)
ScanLines(lines, file_name, line_num) ==
    IF line_num >= Len(lines) THEN <<>>
    ELSE ScanLine(lines[line_num + 1], file_name, line_num)
             \o ScanLines(lines, file_name, line_num + 1)

\* Directory entries as scan_directory sees them: nothing, a regular file
\* with text, a regular file that read_to_string cannot return (no read
\* permission, or bytes that are not UTF-8), a subdirectory with entries of
\* its own, and a symbolic link with the entry it resolves to.
NoEntry == [kind |-> "absent"]
TextFile(content) == [kind |-> "file", readable |-> TRUE, content |-> content]
BadFile(why) == [kind |-> "file", readable |-> FALSE, why |-> why]
SubDir(inner) == [kind |-> "dir", inner |-> inner]
LinkTo(node) == [kind |-> "link", to |-> node]

\* Path::is_file: follows symbolic links.
IsFile(node) ==
    \/ node.kind = "file"
    \/ node.kind = "link" /\ node.to.kind = "file"

\* fs::read_to_string, line 55: the text, or an error.
ReadToString(node) ==
    LET file == IF node.kind = "link" THEN node.to ELSE node
    IN  IF file.kind = "file" /\ file.readable
        THEN [ok |-> TRUE, content |-> file.content]
        ELSE [ok |-> FALSE, content |-> <<>>]

ScanOk(secrets, scanned) ==
    [ok |-> TRUE, err |-> "", secrets |-> secrets, scanned |-> scanned]

ScanErr(err, scanned) ==
    [ok |-> FALSE, err |-> err, secrets |-> <<>>, scanned |-> scanned]

\* scan_file(dir/file_name)
ScanFile(file_name, node) ==
    IF ~ReadToString(node).ok THEN ScanErr("Io", <<file_name>>)
    ELSE ScanOk(ScanLines(Lines(ReadToString(node).content), file_name, 0),
                <<file_name>>)

\* The last index of c in s; 0 when s does not hold c.
LastIndexOf(s, c) ==
    IF c \in Range(s)
    THEN CHOOSE i \in 1..Len(s) : s[i] = c /\ \A k \in (i + 1)..Len(s) : s[k] # c
    ELSE 0

\* Path::extension of a file name: the text after the last ".", when the
\* name holds a "." that is not its first character.
Extension(file_name) ==
    LET dot == LastIndexOf(file_name, ".")
    IN  IF file_name = <<".", ".">> \/ dot <= 1
        THEN [some |-> FALSE, ext |-> <<>>]
        ELSE [some |-> TRUE, ext |-> SubSeq(file_name, dot + 1, Len(file_name))]

\* scan_directory, lines 123-125
config_extensions ==
    {<<"s", "h">>, <<"b", "a", "s", "h">>, <<"z", "s", "h">>, <<"f", "i", "s", "h">>,
     <<"r", "c">>, <<"c", "o", "n", "f">>, <<"c", "o", "n", "f", "i", "g">>,
     <<"t", "o", "m", "l">>, <<"y", "a", "m", "l">>, <<"y", "m", "l">>,
     <<"j", "s", "o", "n">>, <<"e", "n", "v">>}

\* scan_directory, lines 132-140
ShouldScan(file_name) ==
    IF Extension(file_name).some
    THEN Extension(file_name).ext \in config_extensions
    ELSE StartsWith(file_name, <<".">>)

\* scan_directory with scan_file(&path)? in place of if let Ok (faulty
\* variant): the first failing file ends the scan.
RECURSIVE ScanEntries_Propagates(_, _, _, _, _)
ScanEntries_Propagates(entries, order, i, all_secrets, scanned) ==
    IF i > Len(order) THEN ScanOk(all_secrets, scanned)
    ELSE IF IsFile(entries[order[i]]) /\ ShouldScan(order[i])
    THEN LET r == ScanFile(order[i], entries[order[i]])
         IN  IF r.ok
             THEN ScanEntries_Propagates(entries, order, i + 1, all_secrets \o r.secrets,
                                         Append(scanned, order[i]))
             ELSE ScanErr("Io", Append(scanned, order[i]))
    ELSE ScanEntries_Propagates(entries, order, i + 1, all_secrets, scanned)

\* scan_directory that takes every regular file (faulty variant).
RECURSIVE ScanEntries_AnyName(_, _, _, _, _)
ScanEntries_AnyName(entries, order, i, all_secrets, scanned) ==
    IF i > Len(order) THEN ScanOk(all_secrets, scanned)
    ELSE IF IsFile(entries[order[i]])
    THEN LET r == ScanFile(order[i], entries[order[i]])
         IN  ScanEntries_AnyName(entries, order, i + 1,
                                 IF r.ok THEN all_secrets \o r.secrets ELSE all_secrets,
                                 Append(scanned, order[i]))
    ELSE ScanEntries_AnyName(entries, order, i + 1, all_secrets, scanned)

\* scan_directory, lines 127-148: the loop over read_dir, from entry i on.
\* scanned lists the files handed to scan_file.
RECURSIVE ScanEntries(_, _, _, _, _)
ScanEntries(entries, order, i, all_secrets, scanned) ==
    IF i > Len(order) THEN ScanOk(all_secrets, scanned)
    ELSE IF IsFile(entries[order[i]]) /\ ShouldScan(order[i])
    THEN LET r == ScanFile(order[i], entries[order[i]])
         IN  ScanEntries(entries, order, i + 1,
                         IF r.ok THEN all_secrets \o r.secrets ELSE all_secrets,
                         Append(scanned, order[i]))
    ELSE ScanEntries(entries, order, i + 1, all_secrets, scanned)

\* The names read_dir yields for a directory.
EntriesOf(d) == {n \in DOMAIN d.entries : d.entries[n].kind # "absent"}

\* scan_directory(dir_path)
ScanDirectory(d, order) ==
    IF d.kind = "absent" THEN ScanOk(<<>>, <<>>)
    ELSE IF d.kind # "dir" THEN ScanErr("Io", <<>>)
    ELSE ScanEntries(d.entries, order, 1, <<>>, <<>>)

\* The header extract_to_env writes, lines 156-157:
\*   "# Extracted secrets - DO NOT COMMIT THIS FILE\n"
\*   "# Add this file to .gitignore\n\n"
EnvHeader ==
    <<"#", " ", "E", "x", "t", "r", "a", "c", "t", "e", "d", " ", "s", "e",
       "c", "r", "e", "t", "s", " ", "-", " ", "D", "O", " ", "N", "O",
       "T", " ", "C", "O", "M", "M", "I", "T", " ", "T", "H", "I", "S",
       " ", "F", "I", "L", "E", "\n">>
    \o
    <<"#", " ", "A", "d", "d", " ", "t", "h", "i", "s", " ", "f", "i", "l",
       "e", " ", "t", "o", " ", ".", "g", "i", "t", "i", "g", "n", "o",
       "r", "e", "\n", "\n">>

\* extract_to_env that lets a later secret replace an earlier one of the
\* same key (faulty variant).
RECURSIVE EnvLines_LastWins(_, _, _)
EnvLines_LastWins(secrets, i, seen_keys) ==
    IF i > Len(secrets) THEN <<>>
    ELSE IF \E k \in (i + 1)..Len(secrets) : secrets[k].key = secrets[i].key
    THEN EnvLines_LastWins(secrets, i + 1, seen_keys)
    ELSE secrets[i].key \o <<"=">> \o secrets[i].value \o <<"\n">>
             \o EnvLines_LastWins(secrets, i + 1, seen_keys)

\* extract_to_env, lines 162-169: the text format!("{}={}\n") adds from
\* secret i on, given the keys seen so far.
RECURSIVE EnvLines(_, _, _)
EnvLines(secrets, i, seen_keys) ==
    IF i > Len(secrets) THEN <<>>
    ELSE IF secrets[i].key \notin seen_keys
    THEN secrets[i].key \o <<"=">> \o secrets[i].value \o <<"\n">>
             \o EnvLines(secrets, i + 1, seen_keys \cup {secrets[i].key})
    ELSE EnvLines(secrets, i + 1, seen_keys)

\* extract_to_env(secrets, output_path): the content fs::write stores.
ExtractToEnv(secrets) == EnvHeader \o EnvLines(secrets, 1, {})

\* Lines a scanned file may hold.

\* export API_TOKEN=abc123
LineApiToken ==
    <<"e", "x", "p", "o", "r", "t", " ", "A", "P", "I", "_", "T", "O", "K",
      "E", "N", "=", "a", "b", "c", "1", "2", "3">>

\* export GITHUB_TOKEN=xyz789
LineGithubToken ==
    <<"e", "x", "p", "o", "r", "t", " ", "G", "I", "T", "H", "U", "B", "_",
      "T", "O", "K", "E", "N", "=", "x", "y", "z", "7", "8", "9">>

\* export HOME=/home/user
LineHome ==
    <<"e", "x", "p", "o", "r", "t", " ", "H", "O", "M", "E", "=", "/", "h",
      "o", "m", "e", "/", "u", "s", "e", "r">>

\* # export API_TOKEN=abc123
LineHashComment ==
    <<"#", " ", "e", "x", "p", "o", "r", "t", " ", "A", "P", "I", "_", "T",
      "O", "K", "E", "N", "=", "a", "b", "c", "1", "2", "3">>

\*  \t// REAL_TOKEN=xyz789
LineSlashComment ==
    <<" ", "\t", "/", "/", " ", "R", "E", "A", "L", "_", "T", "O", "K", "E",
      "N", "=", "x", "y", "z", "7", "8", "9">>

\* (empty)
LineBlank ==
    <<>>

\* API_TOKEN="different"
LineDoubleQuoted ==
    <<"A", "P", "I", "_", "T", "O", "K", "E", "N", "=", "\"", "d", "i", "f",
      "f", "e", "r", "e", "n", "t", "\"">>

\* export SECRET_KEY='s3cret'
LineSingleQuoted ==
    <<"e", "x", "p", "o", "r", "t", " ", "S", "E", "C", "R", "E", "T", "_",
      "K", "E", "Y", "=", "'", "s", "3", "c", "r", "e", "t", "'">>

\* export PUBLIC_KEY=ssh-rsa
LinePublicKey ==
    <<"e", "x", "p", "o", "r", "t", " ", "P", "U", "B", "L", "I", "C", "_",
      "K", "E", "Y", "=", "s", "s", "h", "-", "r", "s", "a">>

\* KEYMAP_TOKEN=x
LineKeymapToken ==
    <<"K", "E", "Y", "M", "A", "P", "_", "T", "O", "K", "E", "N", "=", "x">>

\* export AWS_S3_SECRET=abc
LineDigitName ==
    <<"e", "x", "p", "o", "r", "t", " ", "A", "W", "S", "_", "S", "3", "_",
      "S", "E", "C", "R", "E", "T", "=", "a", "b", "c">>

\* DB_PASSWORD='a b'
LineQuotedSpace ==
    <<"D", "B", "_", "P", "A", "S", "S", "W", "O", "R", "D", "=", "'", "a",
      " ", "b", "'">>

\* db_password=hunter2
LineLowerCase ==
    <<"d", "b", "_", "p", "a", "s", "s", "w", "o", "r", "d", "=", "h", "u",
      "n", "t", "e", "r", "2">>

\* echo $API_TOKEN
LineUse ==
    <<"e", "c", "h", "o", " ", "$", "A", "P", "I", "_", "T", "O", "K", "E",
      "N">>

ScanLineSet ==
    {LineApiToken, LineGithubToken, LineHome, LineHashComment,
     LineSlashComment, LineBlank, LineDoubleQuoted, LineSingleQuoted,
     LinePublicKey, LineKeymapToken, LineDigitName, LineQuotedSpace,
     LineLowerCase, LineUse}

\* Names a direct child of the scanned directory may carry.

\* config.sh
config_sh ==
    <<"c", "o", "n", "f", "i", "g", ".", "s", "h">>

\* .zshrc
dot_zshrc ==
    <<".", "z", "s", "h", "r", "c">>

\* readme.txt
readme_txt ==
    <<"r", "e", "a", "d", "m", "e", ".", "t", "x", "t">>

\* Makefile
Makefile ==
    <<"M", "a", "k", "e", "f", "i", "l", "e">>

\* .config
dot_config ==
    <<".", "c", "o", "n", "f", "i", "g">>

\* .zshrc.bak
dot_zshrc_bak ==
    <<".", "z", "s", "h", "r", "c", ".", "b", "a", "k">>

\* settings.JSON
settings_JSON ==
    <<"s", "e", "t", "t", "i", "n", "g", "s", ".", "J", "S", "O", "N">>

\* secrets.env
secrets_env ==
    <<"s", "e", "c", "r", "e", "t", "s", ".", "e", "n", "v">>

DirNames ==
    {config_sh, dot_zshrc, readme_txt, Makefile,
     dot_config, dot_zshrc_bak, settings_JSON, secrets_env}

\* A file of the given lines, each ended by a line feed.
RECURSIVE Text(_)
Text(lines) ==
    IF lines = <<>> THEN <<>>
    ELSE Head(lines) \o <<"\n">> \o Text(Tail(lines))

\* Files of one line, with and without the final line feed, and of two
\* lines, one of them the GITHUB_TOKEN line.
FileContents ==
    {Text(<<a>>) : a \in ScanLineSet}
    \cup {a : a \in ScanLineSet}
    \cup {Text(<<a, LineGithubToken>>) : a \in ScanLineSet}
    \cup {Text(<<LineGithubToken, a>>) : a \in ScanLineSet}

\* Two files that assign API_TOKEN differently.
ContentA == Text(<<LineApiToken>>)
ContentB == Text(<<LineDoubleQuoted, LineHashComment, LineGithubToken>>)

\* What a child of a directory with several entries may be.
DirNodes ==
    {TextFile(ContentA), TextFile(ContentB), BadFile("InvalidData"),
     BadFile("PermissionDenied"), SubDir(config_sh :> TextFile(ContentA)),
     LinkTo(TextFile(ContentB)), LinkTo(NoEntry)}

Directory(entries) == [kind |-> "dir", entries |-> entries]

\* The directories a scan starts from: one config.sh of any content; one
\* child of any name and kind, alone or next to a secrets.env that is
\* readable or not; an empty directory; a path that does not exist; a path
\* that is a file.
InitialDirs ==
    {Directory(config_sh :> TextFile(c)) : c \in FileContents}
    \cup {Directory(n :> x) : n \in DirNames, x \in DirNodes}
    \cup {Directory(n :> x @@ secrets_env :> y) :
              n \in DirNames, x \in DirNodes,
              y \in {TextFile(ContentB), BadFile("InvalidData")}}
    \cup {Directory(<<>>), [kind |-> "absent", entries |-> <<>>],
          [kind |-> "file", entries |-> <<>>]}

\* What the output path of extract_to_env may hold before a call: nothing,
\* a file with earlier content, or a directory.
NoEnvFile == [kind |-> "absent", content |-> <<>>]
EnvFile(content) == [kind |-> "file", content |-> content]
EnvDir == [kind |-> "dir", content |-> <<>>]

\* OLD_TOKEN=stale
OldEnvContent ==
    <<"O", "L", "D", "_", "T", "O", "K", "E", "N", "=", "s", "t", "a", "l",
      "e", "\n">>

\* fs::write that appends to the file it finds (faulty variant).
WriteFile_Appends(old, content) ==
    IF old.kind = "dir" THEN [ok |-> FALSE, file |-> old]
    ELSE [ok |-> TRUE, file |-> EnvFile(old.content \o content)]

\* fs::write(output_path, env_content), line 171: creates the file or
\* replaces its content; fails on a directory.
WriteFile(old, content) ==
    IF old.kind = "dir" THEN [ok |-> FALSE, file |-> old]
    ELSE [ok |-> TRUE, file |-> EnvFile(content)]

\* Keys handed to is_likely_secret: a prefix, a word and a suffix.
KeyPrefixes ==
    {<<>>, <<"A", "P", "I", "_">>, <<"P", "U", "B", "L", "I", "C", "_">>,
     <<"S", "S", "H", "_">>, <<"p", "u", "b", "l", "i", "c", "_">>}

KeyWords ==
    {TOKEN, KEY, SECRET, PASSWORD, PASS, AUTH, <<"H", "O", "M", "E">>,
     <<"P", "A", "T", "H">>, <<"k", "e", "y">>, <<"T", "o", "k", "e", "n">>}

KeySuffixes ==
    {<<>>, <<"_", "P", "A", "T", "H">>, <<"_", "F", "I", "L", "E">>,
     <<"M", "A", "P">>, <<"m", "a", "p", "_", "T", "O", "K", "E", "N">>}

CandidateKeys == {p \o w \o s : p \in KeyPrefixes, w \in KeyWords, s \in KeySuffixes}

----------------------------------------------------------------------------
(* State of the scanner: the directory under scan, the file at the output  *)
(* path of extract_to_env, and the last call with its arguments and its    *)
(* result.                                                                 *)

NoScan ==
    [op |-> "none", key |-> <<>>, accepted |-> FALSE, file_name |-> <<>>,
     order |-> <<>>, input |-> <<>>, env_before |-> NoEnvFile,
     ok |-> TRUE, err |-> "", secrets |-> <<>>, scanned |-> <<>>]

----------------------------------------------------------------------------
(* Backups, src/src/backup/mod.rs.  A tree is a directory as the scanner   *)
(* sees it (Directory, NoTree for a path that does not exist).  Backups    *)
(* live under a parent directory, the home directory by default, in a      *)
(* child named after the time of the call; the target of a restore lies    *)
(* outside the parents of the backups.  The clock counts half seconds.     *)

NoTree == [kind |-> "absent", entries |-> <<>>]

\* Clock ticks in one second.
TicksPerSecond == 2

\* The highest clock value of the model.
MaxClock == 2

\* Local::now().format("%Y%m%d-%H%M%S"), line 45: the time to the second.
Timestamp(now) == now \div TicksPerSecond

Timestamps == {Timestamp(now) : now \in 0..MaxClock}

\* backup_dir: None is the home directory, Some(dir) another directory.
BackupParents == {"home", "elsewhere"}

\* backup_parent.join(".dotfiles-backup-{timestamp}"), lines 48-57
BackupPath(parent, now) == <<parent, Timestamp(now)>>

BackupPaths == BackupParents \X Timestamps

NoBackups == [p \in BackupPaths |-> NoTree]

\* Path::is_dir: follows symbolic links.
IsDirNode(node) ==
    \/ node.kind = "dir"
    \/ node.kind = "link" /\ node.to.kind = "dir"

\* fs::copy, line 84: the regular file the copy leaves, read through a
\* symbolic link; fails on a link to nothing and on a file without read
\* permission.
CopyFile(node) ==
    LET file == IF node.kind = "link" THEN node.to ELSE node
    IN  IF file.kind = "file" /\ (file.readable \/ file.why # "PermissionDenied")
        THEN [ok |-> TRUE, node |-> file]
        ELSE [ok |-> FALSE, node |-> NoEntry]

\* What dst holds at name.
EntryAt(dst, name) ==
    IF name \in DOMAIN dst.entries THEN dst.entries[name] ELSE NoEntry

\* copy_dir_recursive, lines 76-86: the loop over read_dir(src) from entry
\* i on.  A subdirectory is copied over the one dst may hold; a file is
\* copied over the file dst may hold.  The first error ends the copy and
\* leaves what was copied before it.
RECURSIVE CopyEntries(_, _, _, _)
CopyEntries(entries, dst, order, i) ==
    IF i > Len(order) THEN [ok |-> TRUE, dst |-> dst]
    ELSE LET name == order[i]
             node == entries[name]
             old == EntryAt(dst, name)
         IN  IF IsDirNode(node)
             THEN IF old.kind \in {"absent", "dir"}
                  THEN LET from == IF node.kind = "link" THEN node.to ELSE node
                           inner == IF old.kind = "dir"
                                    THEN from.inner @@ old.inner
                                    ELSE from.inner
                       IN  CopyEntries(entries,
                                       [dst EXCEPT !.entries = (name :> SubDir(inner)) @@ @],
                                       order, i + 1)
                  ELSE [ok |-> FALSE, dst |-> dst]
             ELSE IF CopyFile(node).ok /\ old.kind # "dir"
             THEN CopyEntries(entries,
                              [dst EXCEPT !.entries = (name :> CopyFile(node).node) @@ @],
                              order, i + 1)
             ELSE [ok |-> FALSE, dst |-> dst]

\* copy_dir_recursive(src, dst)
CopyDirRecursive(src, dst, order) ==
    LET made == IF dst.kind = "absent" THEN [kind |-> "dir", entries |-> <<>>] ELSE dst
    IN  IF src.kind # "dir" \/ made.kind # "dir"
        THEN [ok |-> FALSE, dst |-> made]
        ELSE CopyEntries(src.entries, made, order, 1)

\* create_backup(source, backup_dir) at the time now
CreateBackup(backups, source, parent, now, order) ==
    LET path == BackupPath(parent, now)
        c == CopyDirRecursive(source, backups[path], order)
    IN  IF source.kind = "absent"
        THEN [ok |-> FALSE, err |-> "Config", path |-> path, backups |-> backups]
        ELSE [ok |-> c.ok, err |-> IF c.ok THEN "" ELSE "Io", path |-> path,
              backups |-> [backups EXCEPT ![path] = c.dst]]

\* restore_backup, lines 139-142: the backup of the current target.
SaveTarget(t, now, order_t) ==
    IF t.target.kind # "absent"
    THEN CreateBackup(t.backups, t.target, "home", now, order_t)
    ELSE [ok |-> TRUE, err |-> "", path |-> <<>>, backups |-> t.backups]

\* restore_backup(backup, target) at the time now, for the backup at path.
\* order_t is the order read_dir gives for the target, order_b the one it
\* gives for backup.path when the copy back begins.
RestoreBackup(t, path, now, order_t, order_b) ==
    LET saved == SaveTarget(t, now, order_t)
        c == CopyDirRecursive(saved.backups[path], NoTree, order_b)
    IN  IF t.backups[path].kind = "absent"
        THEN [ok |-> FALSE, err |-> "Config", trees |-> t]
        ELSE IF ~saved.ok
        THEN [ok |-> FALSE, err |-> saved.err,
              trees |-> [t EXCEPT !.backups = saved.backups]]
        ELSE [ok |-> c.ok, err |-> IF c.ok THEN "" ELSE "Io",
              trees |-> [target |-> c.dst, backups |-> saved.backups]]

\* The names and the kinds of the entries of a target directory.
TreeNames == {config_sh}

TreeNodes ==
    {TextFile(ContentA), TextFile(ContentB), LinkTo(NoEntry),
     SubDir(config_sh :> TextFile(ContentA))}

\* The target directories a run starts from: no directory, an empty one,
\* and one with a single entry.
InitialTargets ==
    {NoTree, Directory(<<>>)}
    \cup {Directory(n :> x) : n \in TreeNames, x \in TreeNodes}

NoTrees == [target |-> NoTree, backups |-> NoBackups]

NoBak ==
    [op |-> "none", parent |-> "", path |-> <<>>, now |-> 0, before |-> NoTrees,
     ok |-> TRUE, err |-> ""]

----------------------------------------------------------------------------
(* Migration, src/src/backup/migrate.rs.  migrate works on the source and  *)
(* target of the file system fs, whose regular files carry their text      *)
(* here, and on the backups under the home directory.  The child c1 of the *)
(* source is named config.sh and the child c2 is named .env, so that       *)
(* target/c2 is the file target/.env that migrate writes the secrets to.   *)

\* .env
dot_env ==
    <<".", "e", "n", "v">>

\* The child of the source whose name is .env.
EnvChild == "c2"

\* options.target.join(".env"), line 75
TargetEnv == Join(Target, EnvChild)

\* The file names of the children of the source.
ChildFileName(n) == IF n = EnvChild THEN dot_env ELSE config_sh

\* A regular file and its text.
TextNode(text) == [kind |-> "file", dest |-> EmptyPath, text |-> text]

\* The text the regular files hold before the first migration: a secret in
\* source/config.sh, another secret in source/.env, an earlier extraction
\* in target/.env, nothing elsewhere.
InitialText(p) ==
    IF p = Join(Source, "c1") THEN ContentA
    ELSE IF p = Join(Source, EnvChild) THEN Text(<<LineGithubToken>>)
    ELSE IF p = TargetEnv THEN OldEnvContent
    ELSE <<>>

WithText(f) ==
    [p \in DOMAIN f |-> IF f[p].kind = "file" THEN TextNode(InitialText(p)) ELSE f[p]]

\* The path a chain of symbolic links ends at.
RECURSIVE Resolve(_, _)
Resolve(f, p) ==
    IF p \in DOMAIN f /\ f[p].kind = "link" THEN Resolve(f, f[p].dest) ELSE p

\* The node behind a path, as scan_directory and copy_dir_recursive see it
\* (both follow symbolic links).
ViewOf(f, p) ==
    LET q == Resolve(f, p)
    IN  IF q \in DOMAIN f /\ f[q].kind = "file" THEN TextFile(f[q].text)
        ELSE IF q \in DOMAIN f /\ f[q].kind = "dir" THEN SubDir(<<>>)
        ELSE NoEntry

\* The source as scan_directory and copy_dir_recursive read it.
SourceView(f) ==
    [kind |-> Metadata(f, Source),
     entries |-> [name \in {ChildFileName(n) : n \in DirEntries(f, Source)} |->
                     LET n == CHOOSE c \in DirEntries(f, Source) : ChildFileName(c) = name
                     IN  IF f[Join(Source, n)].kind = "link"
                         THEN LinkTo(ViewOf(f, Join(Source, n)))
                         ELSE ViewOf(f, Join(Source, n))]]

FileNames(order) == [i \in 1..Len(order) |-> ChildFileName(order[i])]

\* fs::write(path, content), secrets.rs line 171: open(2) with O_CREAT and
\* O_TRUNC follows symbolic links, creates the file the chain ends at when
\* its directory exists, and replaces the text of an existing file.
WriteText(f, p, content) ==
    LET q == Resolve(f, p)
    IN  IF /\ q \in DOMAIN f
           /\ f[q].kind \in {"absent", "file"}
           /\ (Len(q) = 1 \/ IsDir(f, Parent(q)))
        THEN [ok |-> TRUE, fs |-> [f EXCEPT ![q] = TextNode(content)]]
        ELSE [ok |-> FALSE, fs |-> f]

MigrationOptions(extract_secrets, create_backup, dry_run) ==
    [extract_secrets |-> extract_secrets, create_backup |-> create_backup,
     dry_run |-> dry_run]

\* The world migrate works on.
World(f, backups) == [fs |-> f, backups |-> backups]

MigrateErr(err, w) ==
    [ok |-> FALSE, err |-> err, world |-> w, backup_path |-> <<>>,
     secrets_extracted |-> 0, conflicts |-> <<>>, linked |-> FALSE,
     report |-> NewReport]

\* migrate, line 60, without the test of dry_run (faulty variant).
BackupWanted_IgnoresDryRun(options) == options.create_backup

\* migrate, line 60
BackupWanted(options) == options.create_backup /\ ~options.dry_run

\* migrate, lines 71-82
ExtractWanted(options, found_secrets) == found_secrets # <<>> /\ ~options.dry_run

\* migrate, lines 67-82: Step 3 writes target/.env.
Extracts(options, found) ==
    options.extract_secrets /\ found.ok /\ ExtractWanted(options, found.secrets)

\* The file system Step 3 leaves to Step 4 and Step 5.
AfterSecrets(options, f, found, written) ==
    IF Extracts(options, found) /\ written.ok THEN written.fs ELSE f

\* migrate, lines 102-123, with the symlinker run whatever detect_conflicts
\* returned (faulty variant).
MigrateLinks_NoGate(options, w, backup_path, secrets_extracted, conflicts, p) ==
    IF ~p.ok
    THEN MigrateErr(p.err, [w EXCEPT !.fs = p.fs])
    ELSE [ok |-> TRUE, err |-> "", world |-> [w EXCEPT !.fs = p.fs],
          backup_path |-> backup_path,
          secrets_extracted |-> secrets_extracted,
          conflicts |-> conflicts, linked |-> TRUE, report |-> p.report]

\* migrate, lines 102-123: Step 5 and the result.  conflicts is what
\* detect_conflicts returned, p what symlinker.symlink returns; both ran on
\* the file system of w.
MigrateLinks(options, w, backup_path, secrets_extracted, conflicts, p) ==
    IF conflicts = <<>> \/ options.dry_run
    THEN IF ~p.ok
         THEN MigrateErr(p.err, [w EXCEPT !.fs = p.fs])
         ELSE [ok |-> TRUE, err |-> "", world |-> [w EXCEPT !.fs = p.fs],
               backup_path |-> backup_path,
               secrets_extracted |-> secrets_extracted,
               conflicts |-> conflicts, linked |-> TRUE, report |-> p.report]
    ELSE [ok |-> TRUE, err |-> "", world |-> w, backup_path |-> backup_path,
          secrets_extracted |-> secrets_extracted, conflicts |-> conflicts,
          linked |-> FALSE, report |-> NewReport]

\* migrate, lines 66-88: Step 3, then the rest.  found is what
\* scan_directory returns, written what extract_to_env's fs::write does.
MigrateSecrets(options, w, backup_path, found, written, conflicts, p) ==
    IF options.extract_secrets /\ ~found.ok
    THEN MigrateErr("Io", w)
    ELSE IF Extracts(options, found) /\ ~written.ok
    THEN MigrateErr("Io", w)
    ELSE MigrateLinks(options,
                      [w EXCEPT !.fs = AfterSecrets(options, w.fs, found, written)],
                      backup_path,
                      IF options.extract_secrets THEN Len(found.secrets) ELSE 0,
                      conflicts, p)

\* migrate(options), lines 51-64 and then the rest, over the results of the
\* calls it makes: b is what create_backup returns.
Migrate(options, w, b, found, written, conflicts, p) ==
    IF ~Exists(w.fs, Source)
    THEN MigrateErr("Config", w)
    ELSE IF BackupWanted(options) /\ ~b.ok
    THEN MigrateErr(b.err, [w EXCEPT !.backups = b.backups])
    ELSE MigrateSecrets(options,
                        IF BackupWanted(options)
                        THEN [w EXCEPT !.backups = b.backups]
                        ELSE w,
                        IF BackupWanted(options) THEN b.path ELSE <<>>,
                        found, written, conflicts, p)

\* extract_to_env(&found_secrets, &options.target.join(".env")), line 76
WriteEnv(f, secrets) == WriteText(f, TargetEnv, ExtractToEnv(secrets))

NoMig ==
    [op |-> "none", options |-> MigrationOptions(FALSE, FALSE, FALSE),
     order |-> <<>>, before |-> World(<<>>, NoBackups),
     ok |-> TRUE, err |-> "", backup_path |-> <<>>, secrets_extracted |-> 0,
     conflicts |-> <<>>, linked |-> FALSE, report |-> NewReport]

----------------------------------------------------------------------------
(* State: the file system, the last call with its arguments, the file      *)
(* system it started from and its result, and a summary of the call before *)
(* it.                                                                     *)

NoCall ==
    [op |-> "none", dry_run |-> FALSE, force |-> FALSE, order |-> <<>>,
     before |-> <<>>, ok |-> TRUE, err |-> "", report |-> NewReport,
     trace |-> NoTrace, list |-> <<>>]

NoSummary ==
    [op |-> "none", dry_run |-> FALSE, force |-> FALSE, ok |-> TRUE, trace |-> NoTrace]

\* What is remembered of a call when the next one is made: the arguments
\* and per-entry outcomes of an apply that was not a dry run.
Summary(call) ==
    IF call.op = "symlink" /\ ~call.dry_run
    THEN [op |-> call.op, dry_run |-> call.dry_run, force |-> call.force,
          ok |-> call.ok, trace |-> call.trace]
    ELSE NoSummary

Init ==
    /\ fs \in InitialFs
    /\ last = NoCall
    /\ prev = NoSummary
    /\ scandir = [kind |-> "absent", entries |-> <<>>]
    /\ envfile = NoEnvFile
    /\ sec = NoScan
    /\ clock = 0
    /\ trees = NoTrees
    /\ bak = NoBak
    /\ mig = NoMig

\* manual.symlink(source, target) on ManualSymlinker { dry_run, force }
Symlink(dry_run, force) ==
    \E order \in Orders(DirEntries(fs, Source)) :
        \E r \in {SymlinkPass(fs, dry_run, force, Source, Target, order)} :
            /\ fs' = r.fs
            /\ last' = [op |-> "symlink", dry_run |-> dry_run, force |-> force,
                        order |-> order, before |-> fs, ok |-> r.ok, err |-> r.err,
                        report |-> r.report, trace |-> r.trace, list |-> <<>>]
            /\ prev' = Summary(last)
            /\ UNCHANGED <<scandir, envfile, sec, clock, trees, bak, mig>>

\* manual.remove(source, target) on ManualSymlinker { dry_run, force }
Remove(dry_run, force) ==
    \E order \in Orders(DirEntries(fs, Source)) :
        \E r \in {RemovePass(fs, dry_run, Source, Target, order)} :
            /\ fs' = r.fs
            /\ last' = [op |-> "remove", dry_run |-> dry_run, force |-> force,
                        order |-> order, before |-> fs, ok |-> r.ok, err |-> r.err,
                        report |-> r.report, trace |-> r.trace, list |-> <<>>]
            /\ prev' = Summary(last)
            /\ UNCHANGED <<scandir, envfile, sec, clock, trees, bak, mig>>

\* detect_conflicts(source, target)
Detect ==
    \E order \in Orders(DirEntries(fs, Source)) :
        /\ fs' = fs
        /\ last' = [NoCall EXCEPT !.op = "detect_conflicts", !.order = order,
                                  !.before = fs,
                                  !.list = DetectConflicts(fs, Source, Target, order)]
        /\ prev' = Summary(last)
        /\ UNCHANGED <<scandir, envfile, sec, clock, trees, bak, mig>>

\* validate_symlinks(source, target)
Validate ==
    \E order \in Orders(DirEntries(fs, Source)) :
        /\ fs' = fs
        /\ last' = [NoCall EXCEPT !.op = "validate_symlinks", !.order = order,
                                  !.before = fs,
                                  !.list = ValidateSymlinks(fs, Source, Target, order)]
        /\ prev' = Summary(last)
        /\ UNCHANGED <<scandir, envfile, sec, clock, trees, bak, mig>>

Next ==
    \/ \E dry_run, force \in BOOLEAN : Symlink(dry_run, force)
    \/ \E dry_run, force \in BOOLEAN : Remove(dry_run, force)
    \/ Detect
    \/ Validate

Spec == Init /\ [][Next]_vars

----------------------------------------------------------------------------
(* Vocabulary of the properties.  They speak of the last call: the file    *)
(* system it started from (last.before), the one it left (fs), and what it *)
(* returned.                                                               *)

\* The direct children of the source directory when the last call began.
Children == DirEntries(last.before, Source)

SourceDir == IsDir(last.before, Source)

\* The last call was op(source, target) on an existing source directory.
Called(op) == last.op = op /\ SourceDir

\* target/n held a symbolic link whose stored destination is source/n.
CorrectLink(f, n) == f[Join(Target, n)] = Link(Join(Source, n))

\* target/n held a symbolic link stored with another destination.
WrongLink(f, n) == IsSymlink(f, Join(Target, n)) /\ ~CorrectLink(f, n)

\* target/n held a plain file or a directory.
PlainEntry(f, n) == f[Join(Target, n)].kind \in {"file", "dir"}

\* The paths of a sequence of (path, reason) pairs.
PathsOf(list) == {list[i][1] : i \in 1..Len(list)}

\* How often a path occurs in a sequence of paths.
Count(seq, p) == Cardinality({i \in 1..Len(seq) : seq[i] = p})

\* The paths of a bucket of (path, reason) pairs, as a sequence.
Firsts(list) == [i \in 1..Len(list) |-> list[i][1]]

\* The last call repeats an apply that was not a dry run and returned Ok,
\* with the same arguments.
Reapplied ==
    /\ Called("symlink") /\ ~last.dry_run
    /\ prev.op = "symlink" /\ prev.ok /\ prev.force = last.force

\* The first of the two calls linked a source child that is itself a broken
\* symbolic link.
LinkedBroken ==
    \E n \in Children : prev.trace[n] = "Created" /\ ~Exists(last.before, Join(Source, n))

----------------------------------------------------------------------------
----------------------------------------------------------------------------
(* C2: after an apply or a remove with dry_run = true, whatever force is   *)
(* and whatever the target held (nothing, plain files, directories,        *)
(* correct links, wrong links, no target directory at all), every path     *)
(* holds exactly what it held before the call.                             *)
C2_DryRunNoOp ==
    (last.op \in {"symlink", "remove"} /\ last.dry_run) => fs = last.before

\* A dry-run apply that reported Created for a wrong link under force, or
\* for a child whose target directory is missing.
C2_Witness ==
    /\ last.dry_run
    /\ \E n \in Children :
        \/ /\ Called("symlink") /\ last.force
           /\ WrongLink(last.before, n) /\ last.trace[n] = "Created"
        \/ /\ Called("symlink")
           /\ ~Exists(last.before, Target) /\ last.trace[n] = "Created"

\* A dry-run remove that reported a correct link as removed.
C2_WitnessRemove ==
    /\ last.dry_run /\ Called("remove")
    /\ \E n \in Children : CorrectLink(last.before, n) /\ last.trace[n] = "Created"

----------------------------------------------------------------------------
(* C3 as stated: for an existing source directory, detect_conflicts lists  *)
(* target/e for a direct child e of the source if and only if an entry     *)
(* occupies target/e and that entry is not a symbolic link whose stored    *)
(* destination is source/e; it lists each such path once and nothing else. *)
C3_ConflictPrecision ==
    Called("detect_conflicts") =>
        /\ \A n \in Children :
              Join(Target, n) \in PathsOf(last.list)
                  <=> (Occupied(last.before, Join(Target, n)) /\ ~CorrectLink(last.before, n))
        /\ PathsOf(last.list) \subseteq {Join(Target, n) : n \in Children}
        /\ Len(last.list) = Cardinality(PathsOf(last.list))

----------------------------------------------------------------------------
(* C4: when target/child is a plain file or a directory, apply returns     *)
(* Conflict for that child, lists it among the conflicts of the report it  *)
(* returns, and leaves the entry as it was; with force or without, in a    *)
(* dry run or a real run.  (A child the pass never reached, because an     *)
(* earlier entry raised an error, has no outcome.)                         *)
C4_PlainEntryUntouched ==
    Called("symlink") =>
        \A n \in Children :
            PlainEntry(last.before, n) =>
                /\ last.trace[n] \in {"Conflict", "NotReached"}
                /\ last.ok => /\ last.trace[n] = "Conflict"
                              /\ Join(Target, n) \in PathsOf(last.report.conflicts)
                /\ fs[Join(Target, n)] = last.before[Join(Target, n)]

\* A forced real apply that met a plain file and a directory at the target.
C4_Witness ==
    /\ Called("symlink") /\ last.force /\ ~last.dry_run /\ last.ok
    /\ \E n, m \in Children :
        /\ last.before[Join(Target, n)] = File /\ last.trace[n] = "Conflict"
        /\ last.before[Join(Target, m)] = Dir /\ last.trace[m] = "Conflict"

----------------------------------------------------------------------------
(* C5 as stated: when target/child is a symbolic link whose destination    *)
(* differs from source/child, apply with force = true and dry_run = false  *)
(* replaces it (afterwards target/child is a link to source/child, the     *)
(* outcome is Created); with force = false the outcome is Conflict and the *)
(* link is left unchanged.                                                 *)
C5_WrongLinkHandling ==
    Called("symlink") =>
        \A n \in Children :
            (WrongLink(last.before, n) /\ last.trace[n] # "NotReached") =>
                /\ (last.force /\ ~last.dry_run) =>
                      /\ last.trace[n] = "Created"
                      /\ CorrectLink(fs, n)
                /\ ~last.force =>
                      /\ last.trace[n] = "Conflict"
                      /\ fs[Join(Target, n)] = last.before[Join(Target, n)]

----------------------------------------------------------------------------
(* C6: for every direct child of the source whose target path is absent,   *)
(* apply returns Created; a real run also creates the missing target       *)
(* directory and leaves target/child a symbolic link whose stored          *)
(* destination is source/child; a dry run returns Created too and leaves   *)
(* target/child absent.  (A child the pass never reached has no outcome.)  *)
C6_AbsentTargetCreated ==
    Called("symlink") =>
        \A n \in Children :
            (~Occupied(last.before, Join(Target, n)) /\ last.trace[n] # "NotReached") =>
                /\ last.trace[n] = "Created"
                /\ last.ok => Count(last.report.created, Join(Target, n)) = 1
                /\ ~last.dry_run => (CorrectLink(fs, n) /\ IsDir(fs, Target))
                /\ last.dry_run => ~Occupied(fs, Join(Target, n))

\* A real apply into a missing target directory that linked two children.
C6_Witness ==
    /\ Called("symlink") /\ ~last.dry_run /\ last.ok
    /\ ~Exists(last.before, Target)
    /\ Cardinality(Children) = 2
    /\ \A n \in Children : last.trace[n] = "Created" /\ CorrectLink(fs, n)

----------------------------------------------------------------------------
(* C7: whenever apply or remove returns Ok for a source directory, the     *)
(* report holds exactly one outcome per direct child: total() is the       *)
(* number of children and each target/child occurs exactly once across the *)
(* buckets created, already_exists, conflicts and skipped.                 *)
C7_OneOutcomePerEntry ==
    ((Called("symlink") \/ Called("remove")) /\ last.ok) =>
        LET all == last.report.created \o last.report.already_exists
                       \o Firsts(last.report.conflicts) \o Firsts(last.report.skipped)
        IN  /\ Total(last.report) = Cardinality(Children)
            /\ \A n \in Children : Count(all, Join(Target, n)) = 1

\* A report over two children whose outcomes fall in different buckets.
C7_Witness ==
    /\ (Called("symlink") \/ Called("remove")) /\ last.ok
    /\ Cardinality(Children) = 2
    /\ Total(last.report) = 2
    /\ Len(last.report.conflicts) = 1
    /\ Len(last.report.already_exists) + Len(last.report.skipped) = 1

----------------------------------------------------------------------------
(* C8: if the source does not exist, apply and remove return               *)
(* Err(SymlinkFailed), no report, and leave every path as it was.          *)
C8_MissingSourceFails ==
    (last.op \in {"symlink", "remove"} /\ ~Exists(last.before, Source)) =>
        /\ ~last.ok
        /\ last.err = "SymlinkFailed"
        /\ last.report = NewReport
        /\ fs = last.before

\* A real, forced apply on a missing source whose target holds entries.
C8_Witness ==
    /\ last.op = "symlink" /\ ~last.dry_run /\ last.force
    /\ ~Exists(last.before, Source)
    /\ \E n \in ChildNames : Occupied(last.before, Join(Target, n))
    /\ ~last.ok

----------------------------------------------------------------------------
(* C9 as stated: for each direct child of the source, remove returns       *)
(* Skipped when target/child does not exist; returns Conflict and leaves   *)
(* the entry untouched when target/child exists but is not a symbolic      *)
(* link; and when target/child is a symbolic link, deletes it (unless dry  *)
(* run), so that nothing is left at target/child.                          *)
C9_RemoveClassification ==
    Called("remove") =>
        \A n \in Children :
            last.trace[n] # "NotReached" =>
                /\ ~Occupied(last.before, Join(Target, n)) => last.trace[n] = "Skipped"
                /\ PlainEntry(last.before, n) =>
                      /\ last.trace[n] = "Conflict"
                      /\ fs[Join(Target, n)] = last.before[Join(Target, n)]
                /\ (IsSymlink(last.before, Join(Target, n)) /\ ~last.dry_run) =>
                      ~Occupied(fs, Join(Target, n))

----------------------------------------------------------------------------
(* C10 as stated: for an existing source directory, validate_symlinks      *)
(* returns one issue for each direct child whose target is missing, is not *)
(* a symbolic link, or is a link with another destination than             *)
(* source/child, and none for a child whose target is a link to            *)
(* source/child; so the result is empty exactly when every child is        *)
(* correctly linked.                                                       *)
C10_ValidateExact ==
    Called("validate_symlinks") =>
        /\ \A n \in Children :
              Count(Firsts(last.list), Join(Target, n))
                  = IF CorrectLink(last.before, n) THEN 0 ELSE 1
        /\ PathsOf(last.list) \subseteq {Join(Target, n) : n \in Children}
        /\ last.list = <<>> <=> \A n \in Children : CorrectLink(last.before, n)

----------------------------------------------------------------------------
(* C11: if the source does not exist, detect_conflicts returns exactly one *)
(* entry, whose path is the source and whose reason says that the source   *)
(* directory does not exist, and changes nothing in the file system.       *)
C11_MissingSourceAsData ==
    (last.op = "detect_conflicts" /\ ~Exists(last.before, Source)) =>
        /\ Len(last.list) = 1
        /\ last.list[1] = <<Source, "Source directory does not exist">>
        /\ fs = last.before

\* detect_conflicts on a missing source whose target holds an entry.
C11_Witness ==
    /\ last.op = "detect_conflicts"
    /\ ~Exists(last.before, Source)
    /\ \E n \in ChildNames : Occupied(last.before, Join(Target, n))
    /\ Len(last.list) = 1

----------------------------------------------------------------------------
(* The secret scanner as a state machine.                                  *)

SecretsInit ==
    /\ scandir \in InitialDirs
    /\ envfile \in {NoEnvFile, EnvFile(OldEnvContent), EnvDir}
    /\ sec = NoScan
    /\ clock = 0
    /\ trees = NoTrees
    /\ bak = NoBak
    /\ mig = NoMig
    /\ fs = MkFs(Absent, Absent, NoChildren, NoEntries)
    /\ last = NoCall
    /\ prev = NoSummary

\* is_likely_secret(key)
IsLikelySecretCall ==
    \E key \in CandidateKeys :
        /\ sec' = [NoScan EXCEPT !.op = "is_likely_secret", !.key = key,
                                 !.accepted = IsLikelySecret(key)]
        /\ UNCHANGED <<scandir, envfile, fs, last, prev, clock, trees, bak, mig>>

\* scan_file(scandir/file_name)
ScanFileCall ==
    \E file_name \in EntriesOf(scandir) :
        \E r \in {ScanFile(file_name, scandir.entries[file_name])} :
            /\ sec' = [NoScan EXCEPT !.op = "scan_file", !.file_name = file_name,
                                     !.ok = r.ok, !.err = r.err,
                                     !.secrets = r.secrets, !.scanned = r.scanned]
            /\ UNCHANGED <<scandir, envfile, fs, last, prev, clock, trees, bak, mig>>

\* scan_directory(scandir)
ScanDirectoryCall ==
    \E order \in Orders(EntriesOf(scandir)) :
        \E r \in {ScanDirectory(scandir, order)} :
            /\ sec' = [NoScan EXCEPT !.op = "scan_directory", !.order = order,
                                     !.ok = r.ok, !.err = r.err,
                                     !.secrets = r.secrets, !.scanned = r.scanned]
            /\ UNCHANGED <<scandir, envfile, fs, last, prev, clock, trees, bak, mig>>

\* extract_to_env(secrets, output_path) on the secrets the last scan found
ExtractToEnvCall ==
    /\ sec.op \in {"scan_file", "scan_directory"}
    /\ sec.ok
    /\ \E w \in {WriteFile(envfile, ExtractToEnv(sec.secrets))} :
          /\ envfile' = w.file
          /\ sec' = [NoScan EXCEPT !.op = "extract_to_env", !.input = sec.secrets,
                                   !.env_before = envfile, !.ok = w.ok,
                                   !.err = IF w.ok THEN "" ELSE "Io"]
    /\ UNCHANGED <<scandir, fs, last, prev, clock, trees, bak, mig>>

SecretsNext ==
    \/ ScanFileCall
    \/ ScanDirectoryCall
    \/ ExtractToEnvCall

SecretsSpec == SecretsInit /\ [][SecretsNext]_vars

\* is_likely_secret alone, on every candidate key.
KeysInit ==
    /\ scandir = Directory(<<>>)
    /\ envfile = NoEnvFile
    /\ sec = NoScan
    /\ clock = 0
    /\ trees = NoTrees
    /\ bak = NoBak
    /\ mig = NoMig
    /\ fs = MkFs(Absent, Absent, NoChildren, NoEntries)
    /\ last = NoCall
    /\ prev = NoSummary

KeysNext == IsLikelySecretCall

KeysSpec == KeysInit /\ [][KeysNext]_vars

----------------------------------------------------------------------------
(* Backup and restore as a state machine: the clock advances, the user     *)
(* writes and deletes files of the target, and create_backup and           *)
(* restore_backup are called on it.                                        *)

BackupInit ==
    /\ clock = 0
    /\ trees \in {[target |-> t, backups |-> NoBackups] : t \in InitialTargets}
    /\ bak = NoBak
    /\ mig = NoMig
    /\ scandir = NoTree
    /\ envfile = NoEnvFile
    /\ sec = NoScan
    /\ fs = MkFs(Absent, Absent, NoChildren, NoEntries)
    /\ last = NoCall
    /\ prev = NoSummary

\* Time passes.
Tick ==
    /\ clock < MaxClock
    /\ clock' = clock + 1
    /\ bak' = NoBak
    /\ UNCHANGED <<trees, scandir, envfile, sec, fs, last, prev, mig>>

\* The user writes a file of the target directory, or deletes one.
WriteTarget ==
    /\ trees.target.kind = "dir"
    /\ \E name \in TreeNames, node \in {NoEntry, TextFile(ContentA), TextFile(ContentB)} :
          /\ EntryAt(trees.target, name).kind \in {"absent", "file"}
          /\ trees' = [trees EXCEPT !.target.entries = (name :> node) @@ @]
    /\ bak' = NoBak
    /\ UNCHANGED <<clock, scandir, envfile, sec, fs, last, prev, mig>>

\* create_backup(target, backup_dir)
CreateBackupCall ==
    \E parent \in BackupParents, order \in Orders(EntriesOf(trees.target)) :
        \E r \in {CreateBackup(trees.backups, trees.target, parent, clock, order)} :
            /\ trees' = [trees EXCEPT !.backups = r.backups]
            /\ bak' = [op |-> "create_backup", parent |-> parent, path |-> r.path,
                       now |-> clock, before |-> trees, ok |-> r.ok, err |-> r.err]
            /\ UNCHANGED <<clock, scandir, envfile, sec, fs, last, prev, mig>>

\* restore_backup(backup, target) for a BackupInfo of the backup at path
RestoreBackupCall ==
    \E path \in BackupPaths, order_t \in Orders(EntriesOf(trees.target)) :
        \E order_b \in Orders(EntriesOf(SaveTarget(trees, clock, order_t).backups[path])) :
            \E r \in {RestoreBackup(trees, path, clock, order_t, order_b)} :
                /\ trees' = r.trees
                /\ bak' = [op |-> "restore_backup", parent |-> path[1], path |-> path,
                           now |-> clock, before |-> trees, ok |-> r.ok, err |-> r.err]
                /\ UNCHANGED <<clock, scandir, envfile, sec, fs, last, prev, mig>>

BackupNext ==
    \/ Tick
    \/ WriteTarget
    \/ CreateBackupCall
    \/ RestoreBackupCall

BackupSpec == BackupInit /\ [][BackupNext]_vars

----------------------------------------------------------------------------
(* Vocabulary of the scanner's properties.                                 *)

\* The distinct keys of a sequence of secrets.
KeysOf(secrets) == {secrets[i].key : i \in 1..Len(secrets)}

\* The first secret of the sequence that carries the key.
FirstWith(secrets, key) ==
    secrets[CHOOSE i \in 1..Len(secrets) :
                /\ secrets[i].key = key
                /\ \A k \in 1..(i - 1) : secrets[k].key # key]

\* The lines of a text that are neither blank nor comments.
EntryLines(content) ==
    SelectSeq(Lines(content), LAMBDA l : l # <<>> /\ Head(l) # "#")

\* KEY=value lines of the secrets that are the first of their key, in input
\* order, from secret i on.
RECURSIVE FirstOccurrences(_, _)
FirstOccurrences(secrets, i) ==
    IF i > Len(secrets) THEN <<>>
    ELSE (IF \E k \in 1..(i - 1) : secrets[k].key = secrets[i].key
          THEN <<>>
          ELSE secrets[i].key \o <<"=">> \o secrets[i].value \o <<"\n">>)
         \o FirstOccurrences(secrets, i + 1)

\* extract_to_env returned Ok.
Extracted == sec.op = "extract_to_env" /\ sec.ok

----------------------------------------------------------------------------
(* C12: for every input sequence of secrets, the file extract_to_env       *)
(* writes holds exactly one KEY=value line per distinct key of the input,  *)
(* and that line carries the value of the first secret with the key in     *)
(* input order; later secrets of the same key are dropped whatever their   *)
(* value.                                                                  *)
C12_FirstWins ==
    Extracted =>
        LET written == EntryLines(envfile.content)
        IN  /\ \A key \in KeysOf(sec.input) :
                  /\ Cardinality({i \in 1..Len(written) :
                                     StartsWith(written[i], key \o <<"=">>)}) = 1
                  /\ \E i \in 1..Len(written) :
                        written[i] = key \o <<"=">> \o FirstWith(sec.input, key).value
            /\ Len(written) = Cardinality(KeysOf(sec.input))

\* An extraction whose input holds one key twice, with different values.
C12_Witness ==
    /\ Extracted
    /\ \E i, k \in 1..Len(sec.input) :
          /\ i < k
          /\ sec.input[i].key = sec.input[k].key
          /\ sec.input[i].value # sec.input[k].value
    /\ Cardinality(KeysOf(sec.input)) = 2

----------------------------------------------------------------------------
(* C13: after a successful extract_to_env the output file consists of the  *)
(* fixed header comment block followed by the retained KEY=value lines in  *)
(* the order in which their keys first occur in the input; whatever the    *)
(* output file held before is replaced.                                    *)
C13_OutputFromInputOnly ==
    Extracted =>
        /\ envfile.kind = "file"
        /\ envfile.content = EnvHeader \o FirstOccurrences(sec.input, 1)

\* An extraction of two keys over an output file that held other content.
C13_Witness ==
    /\ Extracted
    /\ sec.env_before.kind = "file"
    /\ sec.env_before.content # <<>>
    /\ Cardinality(KeysOf(sec.input)) = 2
    /\ Len(sec.input) > 2

----------------------------------------------------------------------------
\* The entry scan_file was called on, and the lines of its text.
ScannedNode == scandir.entries[sec.file_name]

ScannedLines == Lines(ReadToString(ScannedNode).content)

\* scan_file returned Ok.
FileScanned == sec.op = "scan_file" /\ sec.ok

\* The line starts, after its leading white space, with "#" or "//".
CommentLine(line) ==
    \E i \in 1..Len(line) :
        /\ \A k \in 1..(i - 1) : line[k] \in Whitespace
        /\ \/ line[i] = "#"
           \/ line[i] = "/" /\ i < Len(line) /\ line[i + 1] = "/"

(* C14: a line whose left-trimmed content starts with "#" or "//" never    *)
(* yields a secret from scan_file, even if the line matches the            *)
(* environment-assignment pattern with an accepted key.                    *)
C14_CommentSuppression ==
    FileScanned =>
        \A n \in 1..Len(ScannedLines) :
            CommentLine(ScannedLines[n]) =>
                \A i \in 1..Len(sec.secrets) : sec.secrets[i].line_number # n

\* A scan that found a secret in a file whose other line is an indented
\* "//" comment matching the pattern with an accepted key.
C14_Witness ==
    /\ FileScanned
    /\ Len(sec.secrets) = 1
    /\ \E n \in 1..Len(ScannedLines) :
          /\ CommentLine(ScannedLines[n])
          /\ ScannedLines[n][1] \in Whitespace
          /\ EnvVarCaptures(ScannedLines[n]).matched
          /\ IsLikelySecret(EnvVarCaptures(ScannedLines[n]).key)

----------------------------------------------------------------------------
(* C15: a candidate key is accepted as a secret if and only if its         *)
(* uppercased form contains at least one of TOKEN, KEY, SECRET, PASSWORD,  *)
(* PASS, AUTH as a substring and none of PUBLIC_KEY, SSH_KEY_PATH,         *)
(* KEY_FILE, KEYMAP; a key containing both an allow keyword and a deny     *)
(* substring is excluded.                                                  *)
C15_AllowDeny ==
    sec.op = "is_likely_secret" =>
        LET upper == ToUppercase(sec.key)
            allowed == \E kw \in {TOKEN, KEY, SECRET, PASSWORD, PASS, AUTH} :
                           Contains(upper, kw)
            denied == \E ns \in {PUBLIC_KEY, SSH_KEY_PATH, KEY_FILE, KEYMAP} :
                          Contains(upper, ns)
        IN  /\ sec.accepted <=> (allowed /\ ~denied)
            /\ (allowed /\ denied) => ~sec.accepted

\* A rejected key of mixed case that holds TOKEN and, once uppercased,
\* KEYMAP.
C15_Witness ==
    /\ sec.op = "is_likely_secret"
    /\ ~sec.accepted
    /\ Contains(sec.key, TOKEN)
    /\ ~Contains(sec.key, KEYMAP)
    /\ Contains(ToUppercase(sec.key), KEYMAP)

\* An accepted key.
C15_WitnessAccepted ==
    /\ sec.op = "is_likely_secret"
    /\ sec.accepted
    /\ Contains(sec.key, PASSWORD)

----------------------------------------------------------------------------
\* The characters of a shell variable name written in upper case.
Digits == {"0", "1", "2", "3", "4", "5", "6", "7", "8", "9"}

NameChars == Range(UpperLetters) \cup Digits \cup {"_"}

\* The first index of s that holds c; Len(s) + 1 when none does.
IndexOf(s, c) == RunEnd(s, 1, {c}, FALSE)

\* The identifier an assignment NAME=value of the line assigns: the name
\* that ends at the first "=".
AssignedName(line) ==
    LET eq == IndexOf(line, "=")
        start == CHOOSE i \in 1..eq :
                     /\ \A k \in i..(eq - 1) : line[k] \in NameChars
                     /\ i > 1 => line[i - 1] \notin NameChars
    IN  SubSeq(line, start, eq - 1)

\* The value the assignment gives: the text between the quotes when the
\* value is quoted, the text up to the next white space otherwise.
AssignedValue(line) ==
    LET rest == SubSeq(line, IndexOf(line, "=") + 1, Len(line))
    IN  IF rest # <<>> /\ Head(rest) \in Quotes
        THEN SubSeq(Tail(rest), 1, IndexOf(Tail(rest), Head(rest)) - 1)
        ELSE SubSeq(rest, 1, RunEnd(rest, 1, Whitespace, FALSE) - 1)

\* The line holds an environment assignment with an accepted key.
AcceptedAssignment(line) ==
    /\ "=" \in Range(line)
    /\ AssignedName(line) # <<>>
    /\ AssignedValue(line) # <<>>
    /\ \E kw \in {TOKEN, KEY, SECRET, PASSWORD, PASS, AUTH} :
          Contains(AssignedName(line), kw)
    /\ \A ns \in {PUBLIC_KEY, SSH_KEY_PATH, KEY_FILE, KEYMAP} :
          ~Contains(AssignedName(line), ns)

\* The secrets the lines from n on are to yield.
RECURSIVE SecretsOfLines(_, _, _)
SecretsOfLines(lines, file_name, n) ==
    IF n > Len(lines) THEN <<>>
    ELSE (IF ~CommentLine(lines[n]) /\ AcceptedAssignment(lines[n])
          THEN <<Secret(AssignedName(lines[n]), AssignedValue(lines[n]), file_name, n)>>
          ELSE <<>>)
         \o SecretsOfLines(lines, file_name, n + 1)

(* C16 as stated: scan_file returns one Secret for each non-comment line   *)
(* containing an accepted environment assignment, in ascending line order, *)
(* with line_number the 1-indexed position of the line in the file         *)
(* (comment and blank lines counted), key the assigned identifier and      *)
(* value the assigned value without surrounding quotes; lines with         *)
(* non-secret keys such as HOME contribute nothing.                        *)
C16_OutputShape ==
    FileScanned => sec.secrets = SecretsOfLines(ScannedLines, sec.file_name, 1)

----------------------------------------------------------------------------
\* scan_directory ran over an existing directory.
DirScanned == sec.op = "scan_directory" /\ scandir.kind = "dir"

\* The child is a regular file, reached directly or through a symbolic
\* link (Path::is_file).
RegularFile(name) == IsFile(scandir.entries[name])

\* The name is one scan_directory takes: its extension is in the list, or
\* it has no extension and starts with ".".
EligibleName(name) ==
    \/ Extension(name).some /\ Extension(name).ext \in config_extensions
    \/ ~Extension(name).some /\ Head(name) = "."

\* The secrets of the readable eligible files, in the order of the scan,
\* from entry i on.
RECURSIVE SecretsOfFiles(_, _)
SecretsOfFiles(order, i) ==
    IF i > Len(order) THEN <<>>
    ELSE (IF /\ RegularFile(order[i])
             /\ EligibleName(order[i])
             /\ ReadToString(scandir.entries[order[i]]).ok
          THEN ScanFile(order[i], scandir.entries[order[i]]).secrets
          ELSE <<>>)
         \o SecretsOfFiles(order, i + 1)

(* C17: scan_directory scans a direct child of dir if and only if it is a  *)
(* regular file and either its extension is one of sh, bash, zsh, fish,    *)
(* rc, conf, config, toml, yaml, yml, json, env, or it has no extension    *)
(* and its name starts with "."; subdirectories are never descended into   *)
(* and every other file contributes no secret.                             *)
C17_Eligibility ==
    DirScanned =>
        /\ Range(sec.scanned)
               = {n \in EntriesOf(scandir) : RegularFile(n) /\ EligibleName(n)}
        /\ \A i \in 1..Len(sec.secrets) :
              /\ sec.secrets[i].file \in EntriesOf(scandir)
              /\ RegularFile(sec.secrets[i].file)
              /\ EligibleName(sec.secrets[i].file)

\* A scan of a directory that holds a subdirectory with an eligible name
\* and a file with secrets inside, next to a file that was scanned.
C17_Witness ==
    /\ DirScanned
    /\ \E n \in EntriesOf(scandir) :
          /\ scandir.entries[n].kind = "dir"
          /\ EligibleName(n)
          /\ n \notin Range(sec.scanned)
    /\ Len(sec.scanned) = 1
    /\ sec.secrets # <<>>

\* A scan that passed over a readable file with secrets because of its
\* name, and took another file.
C17_WitnessName ==
    /\ DirScanned
    /\ \E n \in EntriesOf(scandir) :
          /\ RegularFile(n)
          /\ ~EligibleName(n)
          /\ ReadToString(scandir.entries[n]).ok
          /\ n \notin Range(sec.scanned)
    /\ Len(sec.scanned) = 1

----------------------------------------------------------------------------
(* C18: if scanning one eligible file fails (unreadable or not UTF-8),     *)
(* scan_directory still returns Ok and its result holds exactly the        *)
(* secrets of all the other eligible files; a failing file never aborts    *)
(* the scan or removes another file's secrets.                             *)
C18_BestEffort ==
    DirScanned =>
        /\ sec.ok
        /\ sec.secrets = SecretsOfFiles(sec.order, 1)

\* A scan that met an eligible file it could not read before an eligible
\* file with secrets, and returned those.
C18_Witness ==
    /\ DirScanned
    /\ Len(sec.order) = 2
    /\ RegularFile(sec.order[1])
    /\ EligibleName(sec.order[1])
    /\ ~ReadToString(scandir.entries[sec.order[1]]).ok
    /\ sec.scanned = sec.order
    /\ sec.ok
    /\ sec.secrets # <<>>

----------------------------------------------------------------------------
(* Migration as a state machine.                                           *)

\* What may occupy target/name before a migration: nothing, a plain file, or
\* the link a previous migration made.
MigrateEntryNodes(correct) == {Absent, File, Link(correct)}

MigrateFs ==
    {f \in InitialFs :
        \A n \in ChildNames :
            f[Join(Target, n)] \in MigrateEntryNodes(Join(Source, n))}

MigrateInit ==
    /\ fs \in {WithText(f) : f \in MigrateFs}
    /\ envfile = NoEnvFile
    /\ trees = NoTrees
    /\ clock = 0
    /\ mig = NoMig
    /\ bak = NoBak
    /\ scandir = NoTree
    /\ sec = NoScan
    /\ last = NoCall
    /\ prev = NoSummary

\* migrate(options): the calls migrate makes, each on the state it finds,
\* and what becomes of their results.
MigrateCall ==
    \E order \in Orders(DirEntries(fs, Source)) :
      \E b \in {CreateBackup(trees.backups, SourceView(fs), "home", clock,
                              FileNames(order))} :
        \E found \in {ScanDirectory(SourceView(fs), FileNames(order))} :
          \E written \in {WriteEnv(fs, found.secrets)} :
            \E extract_secrets, create_backup, dry_run \in BOOLEAN :
              \E options \in {MigrationOptions(extract_secrets, create_backup,
                                                dry_run)} :
                \E f3 \in {AfterSecrets(options, fs, found, written)} :
                  \E conflicts \in {DetectConflicts(f3, Source, Target, order)} :
                    \E p \in {SymlinkPass(f3, dry_run, FALSE, Source, Target, order)} :
                      \E r \in {Migrate(options, World(fs, trees.backups),
                                        b, found, written, conflicts, p)} :
                        /\ fs' = r.world.fs
                        /\ trees' = [trees EXCEPT !.backups = r.world.backups]
                        /\ mig' = [op |-> "migrate", options |-> options,
                                   order |-> order,
                                   before |-> World(fs, trees.backups),
                                   ok |-> r.ok, err |-> r.err,
                                   backup_path |-> r.backup_path,
                                   secrets_extracted |-> r.secrets_extracted,
                                   conflicts |-> r.conflicts, linked |-> r.linked,
                                   report |-> r.report]
                        /\ UNCHANGED <<clock, bak, scandir, envfile, sec, last, prev>>

MigrateNext == MigrateCall

MigrateSpec == MigrateInit /\ [][MigrateNext]_vars

----------------------------------------------------------------------------
(* C19: a migrate call with dry_run = true changes nothing in the file     *)
(* system in any of its steps: no backup directory is created even when    *)
(* create_backup = true, no target/.env is written even when secrets are   *)
(* found, and no symbolic link is created in the target.                   *)
C19_MigrateDryRun ==
    (mig.op = "migrate" /\ mig.options.dry_run) =>
        /\ trees.backups = mig.before.backups
        /\ fs = mig.before.fs

\* A dry run with every step asked for that found a secret and reported
\* links it would create, where target/.env does not exist.
C19_Witness ==
    /\ mig.op = "migrate"
    /\ mig.options.dry_run /\ mig.options.create_backup /\ mig.options.extract_secrets
    /\ mig.ok
    /\ mig.secrets_extracted > 0
    /\ mig.linked
    /\ mig.report.created # <<>>
    /\ ~Occupied(fs, TargetEnv)

\* A dry run that went on to the links although conflicts were found.
C19_WitnessConflicts ==
    /\ mig.op = "migrate"
    /\ mig.options.dry_run
    /\ mig.ok
    /\ mig.conflicts # <<>>
    /\ mig.linked

----------------------------------------------------------------------------
(* C24: migrate runs its steps in the order backup, scan and extract       *)
(* secrets, detect conflicts, reconcile symlinks.  In a call that is not a *)
(* dry run the symlinker runs only if detect_conflicts returned no         *)
(* conflict; when it returned one, migrate returns Ok with no symlink      *)
(* report and the conflicts listed, and no symbolic link of the target is  *)
(* created or changed.  The order shows in the results: the backup holds   *)
(* the source as it was before target/.env was written, and the conflicts  *)
(* are those of the file system the extraction left.                       *)
C24_ConflictGate ==
    (mig.op = "migrate" /\ ~mig.options.dry_run) =>
        /\ mig.linked => mig.conflicts = <<>>
        /\ mig.conflicts # <<>> =>
              /\ mig.ok /\ ~mig.linked /\ mig.report = NewReport
              /\ \A n \in EntryNames :
                    (IsSymlink(fs, Join(Target, n))
                        \/ IsSymlink(mig.before.fs, Join(Target, n)))
                       => fs[Join(Target, n)] = mig.before.fs[Join(Target, n)]
        /\ (mig.ok /\ ~mig.linked) =>
              mig.conflicts = DetectConflicts(fs, Source, Target, mig.order)
        /\ (mig.ok /\ mig.backup_path # <<>>
               /\ mig.before.backups[mig.backup_path] = NoTree) =>
              trees.backups[mig.backup_path]
                  = CopyDirRecursive(SourceView(mig.before.fs), NoTree,
                                     FileNames(mig.order)).dst

\* A real migration that made its backup, wrote target/.env, found a
\* conflict at one child and therefore left the other child unlinked.
C24_Witness ==
    /\ mig.op = "migrate" /\ ~mig.options.dry_run
    /\ mig.options.create_backup /\ mig.options.extract_secrets
    /\ mig.ok /\ mig.backup_path # <<>>
    /\ mig.secrets_extracted > 0
    /\ fs[TargetEnv] # mig.before.fs[TargetEnv]
    /\ Len(mig.conflicts) = 1
    /\ ~mig.linked
    /\ \E n \in DirEntries(mig.before.fs, Source) :
          ~Occupied(mig.before.fs, Join(Target, n)) /\ ~IsSymlink(fs, Join(Target, n))

----------------------------------------------------------------------------
(* C20 as stated: after restore_backup(backup, target) returns Ok, the     *)
(* file tree of the target equals the file tree that backup.path held when *)
(* the call began, with no file of the previous target left over, wherever *)
(* backup.path lies and whenever the call is made.                         *)
C20_RestoreReproduces ==
    (bak.op = "restore_backup" /\ bak.ok) =>
        trees.target = bak.before.backups[bak.path]

----------------------------------------------------------------------------
(* Vocabulary: broken links.                                               *)

\* target/n was occupied by something other than a link to source/n.
Conflicting(f, n) == Occupied(f, Join(Target, n)) /\ ~CorrectLink(f, n)

\* target/n held a symbolic link whose chain of destinations ends at a
\* missing path.
BrokenLink(f, n) == IsSymlink(f, Join(Target, n)) /\ ~Exists(f, Join(Target, n))

----------------------------------------------------------------------------
(* C21 as stated: when some children of the source conflict at the target, *)
(* apply still returns Ok, and every other child is processed as it would  *)
(* be alone, in whatever order the directory is read: a child whose target *)
(* path is absent is reported Created (and linked in a real run), a child  *)
(* whose target is a link to source/child is reported AlreadyExists and    *)
(* left as it was.                                                         *)
C21_ConflictsAreData ==
    (Called("symlink") /\ \E m \in Children : Conflicting(last.before, m)) =>
        /\ last.ok
        /\ \A n \in Children :
              /\ ~Occupied(last.before, Join(Target, n)) =>
                    /\ last.trace[n] = "Created"
                    /\ ~last.dry_run => CorrectLink(fs, n)
              /\ CorrectLink(last.before, n) =>
                    /\ last.trace[n] = "AlreadyExists"
                    /\ fs[Join(Target, n)] = last.before[Join(Target, n)]

----------------------------------------------------------------------------
(* C22 as stated: in plan (detect_conflicts), apply (symlink), remove and  *)
(* validate (validate_symlinks), every file-system error met during the    *)
(* pass fails the whole operation: when read_dir of the source fails, or   *)
(* the creation or removal of a link fails at some entry, the call returns *)
(* an error and no normal result.                                          *)
C22_ErrorsPropagate ==
    /\ (/\ last.op \in {"detect_conflicts", "validate_symlinks"}
        /\ Exists(last.before, Source)
        /\ ~ReadDirOk(last.before, Source))
           => ~last.ok
    /\ (/\ last.op \in {"symlink", "remove"}
        /\ \E n \in EntryNames : last.trace[n] = "Err")
           => (~last.ok /\ last.report = NewReport)

----------------------------------------------------------------------------
(* Re-running apply after a failure: between two calls the user may remove *)
(* the entry of the target at which the last apply failed, or one the pass *)
(* did not reach, when it is a link that resolves to nothing.              *)

RerunInit ==
    /\ fs \in InitialFs
    /\ last = NoCall
    /\ prev = NoSummary
    /\ scandir = NoTree
    /\ envfile = NoEnvFile
    /\ sec = NoScan
    /\ clock = 0
    /\ trees = NoTrees
    /\ bak = NoBak
    /\ mig = NoMig

\* The user deletes the link at target/n (rm target/n).
ClearCause(n) ==
    /\ last.op = "symlink"
    /\ ~last.ok
    /\ last.trace[n] \in {"Err", "NotReached"}
    /\ IsSymlink(fs, Join(Target, n))
    /\ ~Exists(fs, Join(Target, n))
    /\ fs' = RemoveFile(fs, Join(Target, n)).fs
    /\ UNCHANGED <<last, prev, scandir, envfile, sec, clock, trees, bak, mig>>

RerunNext ==
    \/ \E dry_run, force \in BOOLEAN : Symlink(dry_run, force)
    \/ \E n \in ChildNames : ClearCause(n)

RerunSpec == RerunInit /\ [][RerunNext]_vars

\* The last call is a real apply that follows a real apply with the same
\* force which failed, and no entry the failed call stopped at or did not
\* reach is a link that resolves to nothing any more.
Rerun ==
    /\ Called("symlink") /\ ~last.dry_run
    /\ prev.op = "symlink" /\ ~prev.ok /\ prev.force = last.force
    /\ \A n \in Children :
          prev.trace[n] \in {"Err", "NotReached"} => ~BrokenLink(last.before, n)

(* C23 as stated: when a real apply fails at some entry after it created   *)
(* links for earlier entries, those links remain on disk; and a re-run     *)
(* with the same arguments, once the cause of the failure is gone, returns *)
(* Ok, reports the links the failed call created as AlreadyExists and      *)
(* creates the remaining ones.                                             *)
C23_PartialProgressRerun ==
    /\ (Called("symlink") /\ ~last.dry_run /\ ~last.ok) =>
           \A n \in Children : last.trace[n] = "Created" => CorrectLink(fs, n)
    /\ Rerun =>
           /\ last.ok
           /\ \A n \in Children :
                 /\ prev.trace[n] = "Created" => last.trace[n] = "AlreadyExists"
                 /\ ~Occupied(last.before, Join(Target, n)) =>
                       (last.trace[n] = "Created" /\ CorrectLink(fs, n))

----------------------------------------------------------------------------
(* C25 as stated: in every file system in which the source is an existing  *)
(* directory and detect_conflicts(source, target) returns no conflict, a   *)
(* real apply without force on that same file system returns Ok with no    *)
(* conflict in its report, and validate_symlinks(source, target) then      *)
(* returns no issue.                                                       *)
C25_PlanPredictsApply ==
    (/\ Called("symlink") /\ ~last.dry_run /\ ~last.force
     /\ DetectConflicts(last.before, Source, Target, last.order) = <<>>) =>
        /\ last.ok
        /\ last.report.conflicts = <<>>
        /\ ValidateSymlinks(fs, Source, Target, last.order) = <<>>

----------------------------------------------------------------------------
(* C26 as stated: a target entry that is a symbolic link whose destination *)
(* does not exist is treated as a symbolic link by all four operations,    *)
(* never as an absent entry.  When its stored destination is not           *)
(* source/child, detect_conflicts reports it as a link to the wrong        *)
(* location, apply returns Conflict for it (or replaces it under force),   *)
(* remove deletes it, and validate_symlinks reports that it points to the  *)
(* wrong path; when its stored destination is source/child, it is no       *)
(* conflict, apply returns AlreadyExists, remove deletes it and            *)
(* validate_symlinks raises no issue.                                      *)
C26_BrokenLinksAreLinks ==
    SourceDir =>
        \A n \in Children :
            (/\ BrokenLink(last.before, n)
             /\ \/ last.trace[n] # "NotReached"
                \/ last.op \in {"detect_conflicts", "validate_symlinks"}) =>
                /\ last.op = "detect_conflicts" =>
                      (<<Join(Target, n), "Symlink exists but points to wrong location">>
                           \in {last.list[i] : i \in 1..Len(last.list)})
                          <=> ~CorrectLink(last.before, n)
                /\ last.op = "symlink" =>
                      /\ last.trace[n] =
                            IF CorrectLink(last.before, n) THEN "AlreadyExists"
                            ELSE IF last.force THEN "Created" ELSE "Conflict"
                      /\ (last.force /\ ~last.dry_run) => CorrectLink(fs, n)
                      /\ ~last.force =>
                            fs[Join(Target, n)] = last.before[Join(Target, n)]
                /\ last.op = "remove" =>
                      /\ last.trace[n] = "Created"
                      /\ ~last.dry_run => ~Occupied(fs, Join(Target, n))
                /\ last.op = "validate_symlinks" =>
                      /\ (<<Join(Target, n), "Points to the wrong path">>
                             \in {last.list[i] : i \in 1..Len(last.list)})
                            <=> ~CorrectLink(last.before, n)
                      /\ <<Join(Target, n), "Symlink does not exist">>
                             \notin {last.list[i] : i \in 1..Len(last.list)}

----------------------------------------------------------------------------
(* C27 as stated: in a migrate call that is not a dry run and has          *)
(* extract_secrets = true, if before the call no direct child of the       *)
(* source has an entry at its target path, then whatever the source holds  *)
(* (a child named .env with secrets included) the conflict detection finds *)
(* no conflict and every direct child of the source is linked into the     *)
(* target.                                                                 *)
C27_NoOwnConflicts ==
    (/\ mig.op = "migrate"
     /\ ~mig.options.dry_run /\ mig.options.extract_secrets
     /\ IsDir(mig.before.fs, Source)
     /\ \A n \in DirEntries(mig.before.fs, Source) :
           ~Occupied(mig.before.fs, Join(Target, n))) =>
        /\ mig.conflicts = <<>>
        /\ \A n \in DirEntries(mig.before.fs, Source) : CorrectLink(fs, n)

----------------------------------------------------------------------------
(* C28 as stated: every successful create_backup returns a backup          *)
(* directory that did not exist before the call, and no create_backup or   *)
(* restore_backup call, calls within one clock second included, changes    *)
(* the content of a backup directory that existed before the call.         *)
C28_BackupsNeverShared ==
    bak.op \in {"create_backup", "restore_backup"} =>
        /\ (bak.op = "create_backup" /\ bak.ok) =>
              bak.before.backups[bak.path] = NoTree
        /\ \A p \in BackupPaths :
              bak.before.backups[p] # NoTree =>
                  trees.backups[p] = bak.before.backups[p]

----------------------------------------------------------------------------
(* C29 as stated: remove with dry_run = false deletes the symbolic link at *)
(* target/child only if its stored destination is source/child; a link at  *)
(* target/child that points anywhere else is left in place.                *)
C29_OnlyOwnedLinksRemoved ==
    (Called("remove") /\ ~last.dry_run) =>
        \A n \in Children :
            /\ fs[Join(Target, n)] # last.before[Join(Target, n)] =>
                  CorrectLink(last.before, n)
            /\ WrongLink(last.before, n) =>
                  fs[Join(Target, n)] = last.before[Join(Target, n)]

(* C29, amended: a remove with dry_run = false that returns Ok deletes     *)
(* nothing but symbolic links at target/child, and it deletes them         *)
(* whatever their stored destination: a link at target/child that points   *)
(* to an existing path other than source/child is deleted too.             *)
C29_RemoveDeletesAnyLink ==
    (Called("remove") /\ ~last.dry_run /\ last.ok) =>
        /\ \A p \in DOMAIN fs :
              fs[p] # last.before[p] =>
                  /\ \E n \in Children : p = Join(Target, n)
                  /\ IsSymlink(last.before, p)
                  /\ fs[p] = Absent
        /\ \A n \in Children :
              (WrongLink(last.before, n) /\ Exists(last.before, Join(Target, n))) =>
                  fs[Join(Target, n)] = Absent

\* A real remove that deleted a link to a path outside the source and left
\* a plain file of the target in place.
C29_Witness ==
    /\ Called("remove") /\ ~last.dry_run /\ last.ok
    /\ \E n \in Children :
          /\ last.before[Join(Target, n)] = Link(Other)
          /\ Exists(last.before, Other)
          /\ fs[Join(Target, n)] = Absent
    /\ \E n \in Children :
          /\ PlainEntry(last.before, n)
          /\ fs[Join(Target, n)] = last.before[Join(Target, n)]

----------------------------------------------------------------------------
(* symlink_individual_files for its one special directory, .claude: the    *)
(* source stands for dotfiles_dir/.claude and the target for               *)
(* home_dir/.claude.                                                       *)

\* symlink_individual_files, one turn of the loop over the special
\* directories; the merged report is the report of the one pass.
SymlinkIndividualFiles(f, dry_run, force, source_special, target_special, order) ==
    IF ~Exists(f, source_special)
    THEN PassOk(NewReport, NoTrace, f)
    ELSE LET mk == IF ~Exists(f, target_special)
                   THEN CreateDirAll(f, target_special)
                   ELSE [ok |-> TRUE, fs |-> f]
         IN  IF ~mk.ok
             THEN PassErr("Io", NoTrace, mk.fs)
             ELSE SymlinkPass(mk.fs, dry_run, force, source_special,
                              target_special, order)

\* symlink_individual_files(symlinker, dotfiles_dir, home_dir) with a
\* ManualSymlinker { dry_run, force }
SymlinkIndividualFilesCall(dry_run, force) ==
    \E order \in Orders(DirEntries(fs, Source)) :
        \E r \in {SymlinkIndividualFiles(fs, dry_run, force, Source, Target, order)} :
            /\ fs' = r.fs
            /\ last' = [op |-> "symlink_individual_files", dry_run |-> dry_run,
                        force |-> force, order |-> order, before |-> fs,
                        ok |-> r.ok, err |-> r.err, report |-> r.report,
                        trace |-> r.trace, list |-> <<>>]
            /\ prev' = Summary(last)
            /\ UNCHANGED <<scandir, envfile, sec, clock, trees, bak, mig>>

IndividualNext == \E dry_run, force \in BOOLEAN : SymlinkIndividualFilesCall(dry_run, force)

IndividualSpec == Init /\ [][IndividualNext]_vars

----------------------------------------------------------------------------
(* C30 as stated: symlink_individual_files called with a symlinker in      *)
(* dry-run mode changes nothing on the file system; in particular it does  *)
(* not create home_dir/.claude when dotfiles_dir/.claude exists and        *)
(* home_dir/.claude is absent.                                             *)
C30_IndividualFilesDryRun ==
    (last.op = "symlink_individual_files" /\ last.dry_run) => fs = last.before

====
